---- MODULE Spec2Model ----
(***************************************************************************)
(* A model of the turn engine of the roguelike in src/baserl: the entity   *)
(* components (Fighter, Level, Inventory, AI), the actions, the consumable *)
(* effects, the enemy turn and the input handlers that sequence them.      *)
(*                                                                         *)
(* The world (everything an action can read or write) is a record that the *)
(* operators below thread through a call, the way the Python code threads  *)
(* self.engine; an operator that models a call whose outcome depends on a  *)
(* random choice or on the iteration order of a set returns the set of its *)
(* possible outcomes.                                                      *)
(***************************************************************************)
EXTENDS Integers, Sequences, FiniteSets, Bags, TLC

VARIABLES
    actors,          \* actor id -> the Actor with its Fighter, Level, Inventory, Equipment and AI
    items,           \* item id -> the Item (position, parent reference)
    game_map,        \* engine.game_map: its entity set and its visible grid
    current_floor,   \* engine.game_world.current_floor
    message_log,     \* the messages the latest event appended to engine.message_log
    handler,         \* the active event handler of the main loop
    mouse_location,  \* engine.mouse_location
    running,         \* "running", or the exception that ended the program
    history,         \* history variables: calls of the latest event, die() and xp counts
    events            \* number of events resolved so far (bounded by MaxEvents)

vars == <<actors, items, game_map, current_floor, message_log, handler,
          mouse_location, running, history, events>>

----------------------------------------------------------------------------
(* Bounds of the model *)

MapWidth == 8
MapHeight == 3
MaxEvents == 5
MaxFloor == 2

(* Program constants *)

PlayerHp == 30
PlayerDefense == 2
PlayerPower == 5
PlayerCapacity == 26
PlayerLevelUpBase == 200
LevelUpFactor == 150
OrcHp == 10
OrcDefense == 0
OrcPower == 3
OrcXp == 100
TrollHp == 16
TrollDefense == 1
TrollPower == 4
TrollXp == 35
HealAmount == 4
LightningDamage == 20
LightningRange == 5
ConfusionTurns == 10
FireballDamage == 12
FireballRadius == 3
LevelUpHpBonus == 20
DaggerPower == 2
DaggerDefense == 0
SwordPower == 4
FovRadius == 6

----------------------------------------------------------------------------
(* Identities *)

Player == "player"
Orcs == {"orc1", "orc2", "orc3", "orc4", "orc5", "orc6"}
Troll == "troll"
Monsters == Orcs \cup {Troll}
ActorIds == {Player} \cup Monsters
(* A fixed enumeration of the actors, for the loops whose iteration order
   only permutes the messages they log *)
ActorOrder == <<"player", "orc1", "orc2", "orc3", "orc4", "orc5", "orc6", "troll">>

HealthPotion == "health_potion"
LightningScroll == "lighting_scroll"
ConfusionScroll == "confusion_scroll"
FireballScroll == "fireball_scroll"
Dagger == "dagger"
Sword == "sword"
(* More health potions, the item that the dungeon holds most of: enough of
   them to fill the inventory of the player *)
SparePotionList ==
    <<"health_potion_02", "health_potion_03", "health_potion_04", "health_potion_05",
      "health_potion_06", "health_potion_07", "health_potion_08", "health_potion_09",
      "health_potion_10", "health_potion_11", "health_potion_12", "health_potion_13",
      "health_potion_14", "health_potion_15", "health_potion_16", "health_potion_17",
      "health_potion_18", "health_potion_19", "health_potion_20", "health_potion_21",
      "health_potion_22", "health_potion_23", "health_potion_24">>
SparePotions == {SparePotionList[k] : k \in 1 .. Len(SparePotionList)}
Potions == {HealthPotion} \cup SparePotions
ItemIds ==
    {HealthPotion, LightningScroll, ConfusionScroll, FireballScroll, Dagger, Sword}
        \cup SparePotions
NoItem == "None"

(* entity_factories.py: the capabilities of the item templates *)
Consumable(i) == i \in Potions \cup {LightningScroll, ConfusionScroll, FireballScroll}
Weapons == {Dagger, Sword}
Equippable(i) == i \in Weapons
ItemPowerBonus(i) == IF i = Dagger THEN DaggerPower ELSE IF i = Sword THEN SwordPower ELSE 0
ItemDefenseBonus(i) == IF i = Dagger THEN DaggerDefense ELSE 0

(* Entity.parent: the game map, the inventory of an actor (the actor's id),
   or not yet set (a template that was never spawned) *)
MapParent == "gamemap"
NoParent == "unset"

Max(a, b) == IF a >= b THEN a ELSE b
Min(a, b) == IF a <= b THEN a ELSE b
Abs(a) == IF a >= 0 THEN a ELSE -a

Cells == (0 .. MapWidth - 1) \X (0 .. MapHeight - 1)

(* The tiles of a floor: the cells that are not walkable (walls), and the
   downstairs location.  Every floor of the model has the same tile grid. *)
Walls == {<<0, 0>>, <<0, 2>>}
Walkable(x, y) == <<x, y>> \in Cells /\ <<x, y>> \notin Walls
DownstairsLocation == <<7, 2>>

(* The absent AI of a dead actor, and the two strategies *)
NoAI == [type |-> "None"]
HostileEnemy(path) == [type |-> "Hostile", path |-> path]
ConfusedEnemy(previous_ai, turns_remaining) ==
    [type |-> "Confused", previous_ai |-> previous_ai,
     turns_remaining |-> turns_remaining]

(* A message of the log: its text, the entity and the number it names, its color *)
Msg(text, who, n, color) == [text |-> text, who |-> who, n |-> n, color |-> color]
(* MessageLog.add_message.  The log of the model is the bag of the messages
   that the latest event appended: their order, which follows the iteration
   order of the entity set, is not kept. *)
AddMessage(w, text, who, n, color) ==
    [w EXCEPT !.log = @ (+) SetToBag({Msg(text, who, n, color)})]
(* History: the calls that the latest event made, in order *)
Called(w, what) == [w EXCEPT !.calls = Append(@, what)]

----------------------------------------------------------------------------
(* components/level.py *)

ExperienceToNextLevel(l) == l.level_up_base + l.current_level * l.level_up_factor

(* requires_level_up with a threshold that is reached, not exceeded *)
RequiresLevelUpAtThreshold(l) == l.current_xp >= ExperienceToNextLevel(l)

RequiresLevelUp(l) == l.current_xp > ExperienceToNextLevel(l)

AddXp(w, a, xp) ==
    IF xp = 0 \/ w.actors[a].level_up_base = 0
    THEN w
    ELSE LET w1 == [w EXCEPT !.actors[a].current_xp = @ + xp]
             w2 == AddMessage(w1, "You gain experience points.", a, xp, "white")
         IN IF RequiresLevelUp(w2.actors[a])
            THEN AddMessage(w2, "You advance to level", a,
                            w2.actors[a].current_level + 1, "white")
            ELSE w2

(* increase_level resetting the experience instead of subtracting *)
IncreaseLevelResetsXp(w, a) ==
    [w EXCEPT !.actors[a].current_xp = 0, !.actors[a].current_level = @ + 1]

IncreaseLevel(w, a) ==
    LET l == w.actors[a]
    IN [w EXCEPT !.actors[a].current_xp = @ - ExperienceToNextLevel(l),
                 !.actors[a].current_level = @ + 1]

----------------------------------------------------------------------------
(* components/fighter.py *)

(* Fighter.die leaving blocks_movement as it was *)
DieKeepsBlocking(w, a) ==
    LET player_dies == (a = Player)
        w1 == [w EXCEPT !.actors[a].char = "%",
                        !.actors[a].ai = NoAI,
                        !.actors[a].render_order = "CORPSE",
                        !.die_calls[a] = @ + 1]
        w2 == IF player_dies
              THEN AddMessage(w1, "You died!", a, 0, "player_die")
              ELSE AddMessage(w1, "is dead!", a, 0, "enemy_die")
        w3 == AddXp(w2, Player, w.actors[a].xp_given)
    IN [w3 EXCEPT !.xp_awarded[a] =
            @ + (w3.actors[Player].current_xp - w2.actors[Player].current_xp)]

(* die() without the call of add_xp *)
DieUnrewarded(w, a) ==
    LET player_dies == (a = Player)
        w1 == [w EXCEPT !.actors[a].char = "%",
                        !.actors[a].blocks_movement = FALSE,
                        !.actors[a].ai = NoAI,
                        !.actors[a].render_order = "CORPSE",
                        !.die_calls[a] = @ + 1]
    IN IF player_dies
       THEN AddMessage(w1, "You died!", a, 0, "player_die")
       ELSE AddMessage(w1, "is dead!", a, 0, "enemy_die")

Die(w, a) ==
    LET player_dies == (a = Player)
        w1 == [w EXCEPT !.actors[a].char = "%",
                        !.actors[a].blocks_movement = FALSE,
                        !.actors[a].ai = NoAI,
                        !.actors[a].render_order = "CORPSE",
                        !.die_calls[a] = @ + 1]
        w2 == IF player_dies
              THEN AddMessage(w1, "You died!", a, 0, "player_die")
              ELSE AddMessage(w1, "is dead!", a, 0, "enemy_die")
        w3 == AddXp(w2, Player, w.actors[a].xp_given)
    IN [w3 EXCEPT !.xp_awarded[a] =
            @ + (w3.actors[Player].current_xp - w2.actors[Player].current_xp)]

(* The hp setter without the lower clamp *)
SetHpUnclampedBelow(w, a, value) ==
    LET v == Min(value, w.actors[a].max_hp)
        w1 == [w EXCEPT !.actors[a].hp = v]
    IN IF v = 0 /\ w.actors[a].ai # NoAI THEN Die(w1, a) ELSE w1

(* The hp setter calling die() whether or not the actor still has an AI *)
SetHpDiesAgain(w, a, value) ==
    LET v == Max(0, Min(value, w.actors[a].max_hp))
        w1 == [w EXCEPT !.actors[a].hp = v]
    IN IF v = 0 THEN Die(w1, a) ELSE w1

SetHp(w, a, value) ==
    LET v == Max(0, Min(value, w.actors[a].max_hp))
        w1 == [w EXCEPT !.actors[a].hp = v]
    IN IF v = 0 /\ w.actors[a].ai # NoAI THEN Die(w1, a) ELSE w1

(* components/equipment.py: the bonuses of the items in the two slots
   (NoItem stands for None, an empty slot) *)
SlotPowerBonus(i) == IF i # NoItem /\ Equippable(i) THEN ItemPowerBonus(i) ELSE 0
SlotDefenseBonus(i) == IF i # NoItem /\ Equippable(i) THEN ItemDefenseBonus(i) ELSE 0
PowerBonus(w, a) ==
    SlotPowerBonus(w.actors[a].weapon) + SlotPowerBonus(w.actors[a].armor)
DefenseBonus(w, a) ==
    SlotDefenseBonus(w.actors[a].weapon) + SlotDefenseBonus(w.actors[a].armor)
Power(w, a) == w.actors[a].base_power + PowerBonus(w, a)
Defense(w, a) == w.actors[a].base_defense + DefenseBonus(w, a)

(* heal returns the amount recovered together with the world *)
Heal(w, a, amount) ==
    LET f == w.actors[a]
    IN IF f.hp = f.max_hp
       THEN [w |-> w, recovered |-> 0]
       ELSE LET sum == f.hp + amount
                new_hp_value == IF sum > f.max_hp THEN f.max_hp ELSE sum
            IN [w |-> SetHp(w, a, new_hp_value), recovered |-> new_hp_value - f.hp]

TakeDamage(w, a, amount) == SetHp(w, a, w.actors[a].hp - amount)

IncreaseMaxHp(w, a, amount) ==
    LET w1 == [w EXCEPT !.actors[a].max_hp = @ + amount]
        w2 == SetHp(w1, a, w1.actors[a].hp + amount)
        w3 == AddMessage(w2, "Your health improves!", a, 0, "white")
    IN IncreaseLevel(w3, a)

IncreasePower(w, a, amount) ==
    LET w1 == [w EXCEPT !.actors[a].base_power = @ + amount]
        w2 == AddMessage(w1, "Your feel stronger!", a, 0, "white")
    IN IncreaseLevel(w2, a)

IncreaseDefense(w, a, amount) ==
    LET w1 == [w EXCEPT !.actors[a].base_defense = @ + amount]
        w2 == AddMessage(w1, "Your defense improves!", a, 0, "white")
    IN IncreaseLevel(w2, a)

----------------------------------------------------------------------------
(* game_map.py *)

InBounds(x, y) == 0 <= x /\ x < MapWidth /\ 0 <= y /\ y < MapHeight

(* GameMap.actors: the living actors of the entity set *)
(* GameMap.actors without the test of is_alive: every Actor of the entity set *)
MapActorsWithCorpses(w) == ActorIds \cap w.entities

MapActors(w) == {a \in ActorIds \cap w.entities : w.actors[a].ai # NoAI}

(* GameMap.items *)
MapItems(w) == ItemIds \cap w.entities

(* An Item is constructed with blocks_movement = False and never changes it *)
BlocksMovement(w, e) == IF e \in ActorIds THEN w.actors[e].blocks_movement ELSE FALSE

EntityX(w, e) == IF e \in ActorIds THEN w.actors[e].x ELSE w.items[e].x
EntityY(w, e) == IF e \in ActorIds THEN w.actors[e].y ELSE w.items[e].y

(* get_blocking_entity_at_location returns the first of these in the
   iteration order of the entity set, or None when there is none *)
BlockingEntitiesAt(w, x, y) ==
    {e \in w.entities : BlocksMovement(w, e) /\ EntityX(w, e) = x /\ EntityY(w, e) = y}

(* get_actor_at_location returns the first of these, or None *)
ActorsAt(w, x, y) ==
    {a \in MapActors(w) : w.actors[a].x = x /\ w.actors[a].y = y}

(* entity.py *)
Move(w, a, dx, dy) ==
    [w EXCEPT !.actors[a].x = @ + dx, !.actors[a].y = @ + dy]

(* Entity.distance, squared: the code compares square roots of these *)
Distance2(w, e, x, y) ==
    (x - EntityX(w, e)) * (x - EntityX(w, e)) + (y - EntityY(w, e)) * (y - EntityY(w, e))

----------------------------------------------------------------------------
(* actions.py.  perform() either returns or raises; an outcome is the world
   the call leaves behind together with the exception it raised, if any. *)

Returned(w) == [w |-> w, exc |-> "none", reason |-> ""]
Impossible(w, reason) == [w |-> w, exc |-> "Impossible", reason |-> reason]

(* MovementAction.perform without the test for a blocking entity *)
MovementActionThroughEntities(w, a, dx, dy) ==
    LET dest_x == w.actors[a].x + dx
        dest_y == w.actors[a].y + dy
    IN IF ~InBounds(dest_x, dest_y)
       THEN {Impossible(w, "The way is blocked")}
       ELSE IF ~Walkable(dest_x, dest_y)
       THEN {Impossible(w, "The way is blocked")}
       ELSE {Returned(Move(w, a, dx, dy))}

(* MovementAction.perform refusing a destination for the player that stands
   on it, and for no other blocking entity *)
MovementActionAroundPlayerOnly(w, a, dx, dy) ==
    LET dest_x == w.actors[a].x + dx
        dest_y == w.actors[a].y + dy
    IN IF ~InBounds(dest_x, dest_y)
       THEN {Impossible(w, "The way is blocked")}
       ELSE IF ~Walkable(dest_x, dest_y)
       THEN {Impossible(w, "The way is blocked")}
       ELSE IF Player \in BlockingEntitiesAt(w, dest_x, dest_y)
       THEN {Impossible(w, "The way is blocked")}
       ELSE {Returned(Move(w, a, dx, dy))}

(* MovementAction.perform without the in_bounds test: the index of the
   tile array wraps around, as a negative index of a numpy array does *)
MovementActionOffTheMap(w, a, dx, dy) ==
    LET dest_x == w.actors[a].x + dx
        dest_y == w.actors[a].y + dy
    IN IF ~Walkable(dest_x % MapWidth, dest_y % MapHeight)
       THEN {Impossible(w, "The way is blocked")}
       ELSE IF BlockingEntitiesAt(w, dest_x, dest_y) # {}
       THEN {Impossible(w, "The way is blocked")}
       ELSE {Returned(Move(w, a, dx, dy))}

MovementAction(w, a, dx, dy) ==
    LET dest_x == w.actors[a].x + dx
        dest_y == w.actors[a].y + dy
    IN IF ~InBounds(dest_x, dest_y)
       THEN {Impossible(w, "The way is blocked")}
       ELSE IF ~Walkable(dest_x, dest_y)
       THEN {Impossible(w, "The way is blocked")}
       ELSE IF BlockingEntitiesAt(w, dest_x, dest_y) # {}
       THEN {Impossible(w, "The way is blocked")}
       ELSE {Returned(Move(w, a, dx, dy))}

MeleeDamage(w, a, target) == Power(w, a) - Defense(w, target)

(* MeleeAction.perform subtracting the damage whatever its sign *)
MeleeActionAlwaysSubtracts(w, a, dx, dy) ==
    LET targets == ActorsAt(w, w.actors[a].x + dx, w.actors[a].y + dy)
        attack_color == IF a = Player THEN "player_atk" ELSE "enemy_atk"
        Hit(target) ==
            LET damage == MeleeDamage(w, a, target)
            IN SetHp(AddMessage(w, "attacks for hit points.", target, damage, attack_color),
                     target, w.actors[target].hp - damage)
    IN IF targets = {}
       THEN {Impossible(w, "Nothing to attack.")}
       ELSE {Returned(Hit(target)) : target \in targets}

MeleeAction(w, a, dx, dy) ==
    LET targets == ActorsAt(w, w.actors[a].x + dx, w.actors[a].y + dy)
        attack_color == IF a = Player THEN "player_atk" ELSE "enemy_atk"
        Hit(target) ==
            LET damage == MeleeDamage(w, a, target)
            IN IF damage > 0
               THEN SetHp(AddMessage(w, "attacks for hit points.", target, damage, attack_color),
                          target, w.actors[target].hp - damage)
               ELSE AddMessage(w, "attacks but does no damage.", target, 0, attack_color)
    IN IF targets = {}
       THEN {Impossible(w, "Nothing to attack.")}
       ELSE {Returned(Hit(target)) : target \in targets}

(* BumpAction.perform taking any actor of the entity set on the
   destination, dead or alive, for a target *)
BumpActionAtAnyActor(w, a, dx, dy) ==
    IF \E t \in ActorIds \cap w.entities :
          w.actors[t].x = w.actors[a].x + dx /\ w.actors[t].y = w.actors[a].y + dy
    THEN MeleeAction(w, a, dx, dy)
    ELSE MovementAction(w, a, dx, dy)

BumpAction(w, a, dx, dy) ==
    IF ActorsAt(w, w.actors[a].x + dx, w.actors[a].y + dy) # {}
    THEN MeleeAction(w, a, dx, dy)
    ELSE MovementAction(w, a, dx, dy)

(* The loop returns or raises at the first item of the map, in the iteration
   order of the entity set, that lies on the actor's tile *)
(* PickupAction.perform refusing only an inventory that is over its capacity *)
PickupActionPastCapacity(w, a) ==
    LET here == {i \in MapItems(w) :
                    w.items[i].x = w.actors[a].x /\ w.items[i].y = w.actors[a].y}
        Pick(i) ==
            LET w1 == [w EXCEPT !.entities = @ \ {i},
                                !.items[i].parent = a,
                                !.actors[a].inventory = Append(@, i)]
            IN AddMessage(w1, "You picked up the item!", i, 0, "white")
    IN IF here = {}
       THEN {Impossible(w, "There is nothing to pick up.")}
       ELSE IF Len(w.actors[a].inventory) > w.actors[a].capacity
       THEN {Impossible(w, "Your inventory is full")}
       ELSE {Returned(Pick(i)) : i \in here}

(* PickupAction.perform without the test of the capacity *)
PickupActionUnbounded(w, a) ==
    LET here == {i \in MapItems(w) :
                    w.items[i].x = w.actors[a].x /\ w.items[i].y = w.actors[a].y}
        Pick(i) ==
            LET w1 == [w EXCEPT !.entities = @ \ {i},
                                !.items[i].parent = a,
                                !.actors[a].inventory = Append(@, i)]
            IN AddMessage(w1, "You picked up the item!", i, 0, "white")
    IN IF here = {}
       THEN {Impossible(w, "There is nothing to pick up.")}
       ELSE {Returned(Pick(i)) : i \in here}

PickupAction(w, a) ==
    LET here == {i \in MapItems(w) :
                    w.items[i].x = w.actors[a].x /\ w.items[i].y = w.actors[a].y}
        Pick(i) ==
            LET w1 == [w EXCEPT !.entities = @ \ {i},
                                !.items[i].parent = a,
                                !.actors[a].inventory = Append(@, i)]
            IN AddMessage(w1, "You picked up the item!", i, 0, "white")
    IN IF here = {}
       THEN {Impossible(w, "There is nothing to pick up.")}
       ELSE IF Len(w.actors[a].inventory) >= w.actors[a].capacity
       THEN {Impossible(w, "Your inventory is full")}
       ELSE {Returned(Pick(i)) : i \in here}

WaitAction(w, a) == {Returned(w)}

----------------------------------------------------------------------------
(* components/consumable.py *)

RECURSIVE RemoveFirst(_, _)
(* list.remove: the list without the first occurrence of e *)
RemoveFirst(seq, e) ==
    IF seq = <<>> THEN <<>>
    ELSE IF Head(seq) = e THEN Tail(seq)
    ELSE <<Head(seq)>> \o RemoveFirst(Tail(seq), e)

InSeq(seq, e) == \E k \in 1 .. Len(seq) : seq[k] = e

(* consume removes the item from the inventory that is its parent *)
Consume(w, i) ==
    LET inventory == w.items[i].parent
    IN IF inventory \in ActorIds
       THEN [w EXCEPT !.actors[inventory].inventory = RemoveFirst(@, i)]
       ELSE w

(* ConfusionConsumable.activate testing the target before the visibility of
   the tile *)
ConfusionActivateTargetFirst(w, consumer, i, target_xy) ==
    LET targets == ActorsAt(w, target_xy[1], target_xy[2])
        Confuse(target) ==
            LET w1 == AddMessage(w, "The eyes look vacant, as it starts to stumble around!",
                                 target, 0, "status_effect_applied")
                w2 == [w1 EXCEPT !.actors[target].ai =
                          ConfusedEnemy(w.actors[target].ai, ConfusionTurns)]
            IN Consume(w2, i)
    IN IF targets = {}
       THEN {Impossible(w, "You must select an enemy to target.")}
       ELSE IF target_xy \notin w.visible
       THEN {Impossible(w, "You cannot target an area you cannot see.")}
       ELSE {IF target = consumer
             THEN Impossible(w, "You cannot confuse yourself!")
             ELSE Returned(Confuse(target)) : target \in targets}

ConfusionActivate(w, consumer, i, target_xy) ==
    LET targets == ActorsAt(w, target_xy[1], target_xy[2])
        Confuse(target) ==
            LET w1 == AddMessage(w, "The eyes look vacant, as it starts to stumble around!",
                                 target, 0, "status_effect_applied")
                w2 == [w1 EXCEPT !.actors[target].ai =
                          ConfusedEnemy(w.actors[target].ai, ConfusionTurns)]
            IN Consume(w2, i)
    IN IF target_xy \notin w.visible
       THEN {Impossible(w, "You cannot target an area you cannot see.")}
       ELSE IF targets = {}
       THEN {Impossible(w, "You must select an enemy to target.")}
       ELSE {IF target = consumer
             THEN Impossible(w, "You cannot confuse yourself!")
             ELSE Returned(Confuse(target)) : target \in targets}

(* HealingConsumable.activate consuming the potion before it tests the
   amount recovered *)
HealingActivateConsumesFirst(w, consumer, i) ==
    LET healed == Heal(Consume(w, i), consumer, HealAmount)
    IN IF healed.recovered > 0
       THEN {Returned(AddMessage(healed.w, "You consume the item, and recover HP!",
                                 i, healed.recovered, "health_recovered"))}
       ELSE {Impossible(healed.w, "Your health is already full.")}

(* HealingConsumable.activate consuming the potion whatever the amount
   recovered *)
HealingActivateAtFullHealth(w, consumer, i) ==
    LET healed == Heal(w, consumer, HealAmount)
    IN {Returned(Consume(AddMessage(healed.w, "You consume the item, and recover HP!",
                                    i, healed.recovered, "health_recovered"), i))}

HealingActivate(w, consumer, i) ==
    LET healed == Heal(w, consumer, HealAmount)
    IN IF healed.recovered > 0
       THEN {Returned(Consume(AddMessage(healed.w, "You consume the item, and recover HP!",
                                         i, healed.recovered, "health_recovered"), i))}
       ELSE {Impossible(healed.w, "Your health is already full.")}

(* The loop keeps the first actor, in the iteration order of the entity set,
   of those at the least distance below maximun_range + 1 *)
LightningActivate(w, consumer, i) ==
    LET candidates == {a \in MapActors(w) :
                          /\ a # consumer
                          /\ <<w.actors[a].x, w.actors[a].y>> \in w.visible
                          /\ Distance2(w, consumer, w.actors[a].x, w.actors[a].y)
                                < (LightningRange + 1) * (LightningRange + 1)}
        D(a) == Distance2(w, consumer, w.actors[a].x, w.actors[a].y)
        closest == {a \in candidates : \A b \in candidates : D(a) <= D(b)}
        Strike(target) ==
            LET w1 == AddMessage(w, "A lighting bolt strikes with a loud thunder!",
                                 target, LightningDamage, "white")
            IN Consume(TakeDamage(w1, target, LightningDamage), i)
    IN IF closest = {}
       THEN {Impossible(w, "No enemy is close enough to strike.")}
       ELSE {Returned(Strike(target)) : target \in closest}

RECURSIVE FireballLoop(_, _, _)
(* The loop over game_map.actors, which tests is_alive when it reaches an
   actor; the result is the world with the target_hit flag.  The actors are
   visited in ActorOrder: another order permutes the messages only. *)
FireballLoop(r, order, target_xy) ==
    IF order = <<>> THEN r
    ELSE LET a == Head(order)
             w == r.w
             hit == /\ a \in MapActors(w)
                    /\ Distance2(w, a, target_xy[1], target_xy[2])
                          <= FireballRadius * FireballRadius
             r1 == IF hit
                   THEN [w |-> TakeDamage(
                                  AddMessage(w, "is engulfed in a fiery explosion!",
                                             a, FireballDamage, "white"),
                                  a, FireballDamage),
                         target_hit |-> TRUE]
                   ELSE r
         IN FireballLoop(r1, Tail(order), target_xy)

(* FireballDamageConsumable.activate sparing its user *)
FireballActivateSparesUser(w, consumer, i, target_xy) ==
    IF target_xy \notin w.visible
    THEN {Impossible(w, "You cannot target an area you cannot see.")}
    ELSE LET others == SelectSeq(ActorOrder, LAMBDA a : a # consumer)
             r == FireballLoop([w |-> w, target_hit |-> FALSE], others, target_xy)
         IN IF ~r.target_hit
            THEN {Impossible(r.w, "There are no targets in the radius.")}
            ELSE {Returned(Consume(r.w, i))}

FireballActivate(w, consumer, i, target_xy) ==
    IF target_xy \notin w.visible
    THEN {Impossible(w, "You cannot target an area you cannot see.")}
    ELSE LET r == FireballLoop([w |-> w, target_hit |-> FALSE], ActorOrder, target_xy)
         IN IF ~r.target_hit
            THEN {Impossible(r.w, "There are no targets in the radius.")}
            ELSE {Returned(Consume(r.w, i))}

Activate(w, consumer, i, target_xy) ==
    CASE i \in Potions -> HealingActivate(w, consumer, i)
      [] i = LightningScroll -> LightningActivate(w, consumer, i)
      [] i = ConfusionScroll -> ConfusionActivate(w, consumer, i, target_xy)
      [] i = FireballScroll -> FireballActivate(w, consumer, i, target_xy)

(* actions.py, continued *)
ItemAction(w, a, i, target_xy) ==
    IF Consumable(i) THEN Activate(w, a, i, target_xy) ELSE {Returned(w)}

(* entity.py: Entity.place of an item on the game map.  The position is
   written first; then an entity that has a parent is removed from
   parent.entities, which an Inventory does not have: AttributeError. *)
AttributeError(w) == [w |-> w, exc |-> "AttributeError", reason |-> ""]

Place(w, i, x, y) ==
    LET w1 == [w EXCEPT !.items[i].x = x, !.items[i].y = y]
    IN IF w.items[i].parent \in ActorIds
       THEN AttributeError(w1)
       ELSE Returned([w1 EXCEPT !.entities = (@ \ {i}) \cup {i},
                                !.items[i].parent = MapParent])

(* components/inventory.py: Inventory.drop.  list.remove raises ValueError
   for an item that the list does not hold. *)
ValueError(w) == [w |-> w, exc |-> "ValueError", reason |-> ""]

InventoryDrop(w, a, i) ==
    IF ~InSeq(w.actors[a].inventory, i)
    THEN ValueError(w)
    ELSE LET w1 == [w EXCEPT !.actors[a].inventory = RemoveFirst(@, i)]
             placed == Place(w1, i, w.actors[a].x, w.actors[a].y)
         IN IF placed.exc # "none"
            THEN placed
            ELSE Returned(AddMessage(placed.w, "You dropped the item.", i, 0, "white"))

(* actions.py: DropItem.perform, on an action whose item attribute is set *)
DropItem(w, a, i) == {InventoryDrop(w, a, i)}

----------------------------------------------------------------------------
(* The engine and the dungeon generator (engine.py, procgen.py), which the
   handlers and the stairs call *)

(* Engine.update_fov: the cells within the view radius of the player *)
ComputeFov(x, y) ==
    {c \in Cells : (c[1] - x) * (c[1] - x) + (c[2] - y) * (c[2] - y)
                      <= FovRadius * FovRadius}

UpdateFov(w) ==
    [Called(w, "update_fov") EXCEPT
        !.visible = ComputeFov(w.actors[Player].x, w.actors[Player].y)]

(* generate_dungeon: a new map that holds the player, placed at the start of
   the floor, and whatever the generator spawns: here nothing, or the troll
   when it was never spawned before *)
PlayerStart == <<1, 1>>
TrollStart == <<6, 0>>

GenerateDungeon(w) ==
    LET placed == [w EXCEPT !.actors[Player].x = PlayerStart[1],
                            !.actors[Player].y = PlayerStart[2],
                            !.actors[Player].parent = MapParent,
                            !.entities = {Player},
                            !.visible = {}]
        with_troll == [placed EXCEPT !.actors[Troll].x = TrollStart[1],
                                     !.actors[Troll].y = TrollStart[2],
                                     !.actors[Troll].parent = MapParent,
                                     !.entities = @ \cup {Troll}]
    IN {placed} \cup (IF w.actors[Troll].parent = NoParent THEN {with_troll} ELSE {})

(* game_map.py: GameWorld.generate_floor *)
GenerateFloor(w) ==
    GenerateDungeon([w EXCEPT !.floor = @ + 1])

(* actions.py, continued *)
(* TakeStairsAction.perform comparing the column of the actor only *)
TakeStairsActionByColumn(w, a) ==
    IF w.actors[a].x = DownstairsLocation[1]
    THEN {Returned(AddMessage(w1, "You took the stairs down.", a, 0, "white")) :
             w1 \in GenerateFloor(w)}
    ELSE {Impossible(w, "There are no stairs here.")}

TakeStairsAction(w, a) ==
    IF <<w.actors[a].x, w.actors[a].y>> = DownstairsLocation
    THEN {Returned(AddMessage(w1, "You took the stairs down.", a, 0, "white")) :
             w1 \in GenerateFloor(w)}
    ELSE {Impossible(w, "There are no stairs here.")}

----------------------------------------------------------------------------
(* components/ai.py *)

Directions == {d \in (-1 .. 1) \X (-1 .. 1) : d # <<0, 0>>}

(* The cost array of get_path_to: the walkable flag, plus 10 for every
   blocking entity on a walkable cell *)
CostArray(w) ==
    [c \in Cells |->
        IF Walkable(c[1], c[2])
        THEN 1 + 10 * Cardinality(BlockingEntitiesAt(w, c[1], c[2]))
        ELSE 0]

(* tcod.path.SimpleGraph(cost, cardinal=2, diagonal=3): the cost of the step
   from a cell to the neighbour c is cost[c] times 2 or 3; a cost of 0 blocks *)
Unreachable == 3 * 127 * MapWidth * MapHeight + 1
Neighbours(c) == {q \in Cells : <<q[1] - c[1], q[2] - c[2]>> \in Directions}
StepCost(cost, from, to) ==
    cost[to] * (IF from[1] = to[1] \/ from[2] = to[2] THEN 2 ELSE 3)

RECURSIVE Relax(_, _)
(* tcod.path.Pathfinder: the least cost from the root to every cell *)
Relax(cost, d) ==
    LET Better(c) ==
            LET via == {d[q] + StepCost(cost, q, c) :
                           q \in {q \in Neighbours(c) : d[q] < Unreachable /\ cost[c] > 0}}
            IN IF via = {} THEN d[c]
               ELSE Min(d[c], CHOOSE m \in via : \A n \in via : m <= n)
        next == [c \in Cells |-> Better(c)]
    IN IF next = d THEN d ELSE Relax(cost, next)

RECURSIVE PathsTo(_, _, _, _)
(* The least-cost paths from the root to c, without the root *)
PathsTo(cost, d, root, c) ==
    IF c = root THEN {<<>>}
    ELSE UNION {{Append(p, c) : p \in PathsTo(cost, d, root, q)} :
                   q \in {q \in Neighbours(c) :
                             d[q] < Unreachable /\ d[q] + StepCost(cost, q, c) = d[c]}}

(* get_path_to over a cost array in which a cell that holds a blocking
   entity is closed, as a wall is *)
GetPathToAroundEntities(w, a, dest_x, dest_y) ==
    LET root == <<w.actors[a].x, w.actors[a].y>>
        dest == <<dest_x, dest_y>>
        cost == [c \in Cells |-> IF CostArray(w)[c] = 1 THEN 1 ELSE 0]
        d == Relax(cost, [c \in Cells |-> IF c = root THEN 0 ELSE Unreachable])
    IN IF dest \notin Cells \/ d[dest] >= Unreachable
       THEN {<<>>}
       ELSE PathsTo(cost, d, root, dest)

(* get_path_to: some least-cost path to the destination without the start
   cell, the empty path when the destination cannot be reached *)
GetPathTo(w, a, dest_x, dest_y) ==
    LET root == <<w.actors[a].x, w.actors[a].y>>
        dest == <<dest_x, dest_y>>
        cost == CostArray(w)
        d == Relax(cost, [c \in Cells |-> IF c = root THEN 0 ELSE Unreachable])
    IN IF dest \notin Cells \/ d[dest] >= Unreachable
       THEN {<<>>}
       ELSE PathsTo(cost, d, root, dest)

(* HostileEnemy.perform keeping a cached path that is not empty instead of
   computing a fresh one *)
HostilePerformKeepsPath(w, a) ==
    LET e == w.actors[a]
        target == w.actors[Player]
        dx == target.x - e.x
        dy == target.y - e.y
        distance == Max(Abs(dx), Abs(dy))
        Follow(w1) ==
            LET path == w1.actors[a].ai.path
            IN IF path # <<>>
               THEN MovementAction([w1 EXCEPT !.actors[a].ai.path = Tail(path)], a,
                                   Head(path)[1] - e.x, Head(path)[2] - e.y)
               ELSE WaitAction(w1, a)
    IN IF <<e.x, e.y>> \in w.visible
       THEN IF distance <= 1
            THEN MeleeAction(w, a, dx, dy)
            ELSE IF e.ai.path # <<>> THEN Follow(w)
            ELSE UNION {Follow([w EXCEPT !.actors[a].ai.path = p]) :
                           p \in GetPathTo(w, a, target.x, target.y)}
       ELSE Follow(w)

(* HostileEnemy.perform computing a fresh path whether or not its tile is
   visible *)
HostilePerformAlwaysSeeks(w, a) ==
    LET e == w.actors[a]
        target == w.actors[Player]
        dx == target.x - e.x
        dy == target.y - e.y
        distance == Max(Abs(dx), Abs(dy))
        Follow(w1) ==
            LET path == w1.actors[a].ai.path
            IN IF path # <<>>
               THEN MovementAction([w1 EXCEPT !.actors[a].ai.path = Tail(path)], a,
                                   Head(path)[1] - e.x, Head(path)[2] - e.y)
               ELSE WaitAction(w1, a)
    IN IF distance <= 1 /\ <<e.x, e.y>> \in w.visible
       THEN MeleeAction(w, a, dx, dy)
       ELSE UNION {Follow([w EXCEPT !.actors[a].ai.path = p]) :
                      p \in GetPathTo(w, a, target.x, target.y)}

HostilePerform(w, a) ==
    LET e == w.actors[a]
        target == w.actors[Player]
        dx == target.x - e.x
        dy == target.y - e.y
        distance == Max(Abs(dx), Abs(dy))
        Follow(w1) ==
            LET path == w1.actors[a].ai.path
            IN IF path # <<>>
               THEN MovementAction([w1 EXCEPT !.actors[a].ai.path = Tail(path)], a,
                                   Head(path)[1] - e.x, Head(path)[2] - e.y)
               ELSE WaitAction(w1, a)
    IN IF <<e.x, e.y>> \in w.visible
       THEN IF distance <= 1
            THEN MeleeAction(w, a, dx, dy)
            ELSE UNION {Follow([w EXCEPT !.actors[a].ai.path = p]) :
                           p \in GetPathTo(w, a, target.x, target.y)}
       ELSE Follow(w)

(* ConfusedEnemy.perform keeping the countdown where it was when the bump is
   rejected *)
ConfusedPerformKeepsRejected(w, a) ==
    LET ai == w.actors[a].ai
        Bumped(d) == BumpAction([w EXCEPT !.actors[a].ai.turns_remaining = @ - 1],
                                a, d[1], d[2])
    IN IF ai.turns_remaining <= 0
       THEN {Returned([AddMessage(w, "is no longer confused.", a, 0, "white")
                          EXCEPT !.actors[a].ai = ai.previous_ai])}
       ELSE UNION {{IF o.exc = "Impossible" THEN Impossible(w, o.reason) ELSE o :
                       o \in Bumped(d)} : d \in Directions}

(* ConfusedEnemy.perform logging the recovery without restoring the AI *)
ConfusedPerformStaysConfused(w, a) ==
    LET ai == w.actors[a].ai
    IN IF ai.turns_remaining <= 0
       THEN {Returned(AddMessage(w, "is no longer confused.", a, 0, "white"))}
       ELSE UNION {BumpAction([w EXCEPT !.actors[a].ai.turns_remaining = @ - 1],
                              a, d[1], d[2]) : d \in Directions}

ConfusedPerform(w, a) ==
    LET ai == w.actors[a].ai
    IN IF ai.turns_remaining <= 0
       THEN {Returned([AddMessage(w, "is no longer confused.", a, 0, "white")
                          EXCEPT !.actors[a].ai = ai.previous_ai])}
       ELSE UNION {BumpAction([w EXCEPT !.actors[a].ai.turns_remaining = @ - 1],
                              a, d[1], d[2]) : d \in Directions}

(* entity.ai.perform() *)
AIPerform(w, a) ==
    LET w1 == [w EXCEPT !.ai_calls[a] = @ + 1]
    IN IF w.actors[a].ai.type = "Hostile"
       THEN HostilePerform(w1, a)
       ELSE ConfusedPerform(w1, a)

RECURSIVE EnemyTurns(_)
(* The loop of Engine.handle_enemy_turns over a set of actors, in every
   iteration order: pairs of a world and the actors still to visit.  An actor
   that has no AI when the loop reaches it is skipped, and an Impossible that
   its action raises ends its turn only. *)
EnemyTurns(pairs) ==
    IF \A p \in pairs : p[2] = {}
    THEN {p[1] : p \in pairs}
    ELSE EnemyTurns(UNION {
            IF p[2] = {} THEN {p}
            ELSE UNION {
                    {<<w1, p[2] \ {a}>> :
                        w1 \in IF p[1].actors[a].ai # NoAI
                               THEN {o.w : o \in AIPerform(p[1], a)}
                               ELSE {p[1]}} :
                    a \in p[2]} :
            p \in pairs})

HandleEnemyTurns(w) ==
    EnemyTurns({<<Called(w, "handle_enemy_turns"), MapActors(w) \ {Player}>>})

----------------------------------------------------------------------------
(* components/equipment.py, continued.  unequip_from_slot calls itself with
   one argument when add_message is true, which raises TypeError before the
   slot is changed. *)

TypeError(w) == [w |-> w, exc |-> "TypeError", reason |-> ""]

SlotOf(i) == IF Equippable(i) /\ i \in Weapons THEN "weapon" ELSE "armor"
GetSlot(w, a, slot) == IF slot = "weapon" THEN w.actors[a].weapon ELSE w.actors[a].armor
SetSlot(w, a, slot, i) ==
    IF slot = "weapon" THEN [w EXCEPT !.actors[a].weapon = i]
                       ELSE [w EXCEPT !.actors[a].armor = i]

UnequipFromSlot(w, a, slot, add_message) ==
    IF add_message THEN TypeError(w) ELSE Returned(SetSlot(w, a, slot, NoItem))

EquipToSlot(w, a, slot, i, add_message) ==
    LET unequipped == IF GetSlot(w, a, slot) # NoItem
                      THEN UnequipFromSlot(w, a, slot, add_message)
                      ELSE Returned(w)
        w1 == SetSlot(unequipped.w, a, slot, i)
    IN IF unequipped.exc # "none" THEN unequipped
       ELSE IF add_message
       THEN Returned(AddMessage(w1, "You equip the item.", i, 0, "white"))
       ELSE Returned(w1)

ToggleEquip(w, a, i, add_message) ==
    IF GetSlot(w, a, SlotOf(i)) = i
    THEN UnequipFromSlot(w, a, SlotOf(i), add_message)
    ELSE EquipToSlot(w, a, SlotOf(i), i, add_message)

(* actions.py, continued *)
EquipAction(w, a, i) == {ToggleEquip(w, a, i, TRUE)}

----------------------------------------------------------------------------
(* input_handlers.py *)

(* The actions that the handlers construct for the player *)
NoAction ==
    [type |-> "None", entity |-> Player, item |-> NoItem, dx |-> 0, dy |-> 0,
     target_xy |-> <<0, 0>>]
NewBumpAction(dx, dy) == [NoAction EXCEPT !.type = "BumpAction", !.dx = dx, !.dy = dy]
NewPickupAction == [NoAction EXCEPT !.type = "PickupAction"]
NewTakeStairsAction == [NoAction EXCEPT !.type = "TakeStairsAction"]
NewEquipAction(i) == [NoAction EXCEPT !.type = "EquipAction", !.item = i]
NewItemAction(i, xy) == [NoAction EXCEPT !.type = "ItemAction", !.item = i, !.target_xy = xy]
(* DropItem inherits Action.__init__(entity), which takes no item *)
NewDropItem(i) == [NoAction EXCEPT !.type = "DropItem", !.item = i]

NewMeleeAction(dx, dy) == [NoAction EXCEPT !.type = "MeleeAction", !.dx = dx, !.dy = dy]
NewMovementAction(dx, dy) ==
    [NoAction EXCEPT !.type = "MovementAction", !.dx = dx, !.dy = dy]

(* action.perform() *)
Perform(w, action) ==
    CASE action.type = "BumpAction" -> BumpAction(w, action.entity, action.dx, action.dy)
      [] action.type = "MeleeAction" -> MeleeAction(w, action.entity, action.dx, action.dy)
      [] action.type = "MovementAction" ->
            MovementAction(w, action.entity, action.dx, action.dy)
      [] action.type = "PickupAction" -> PickupAction(w, action.entity)
      [] action.type = "TakeStairsAction" -> TakeStairsAction(w, action.entity)
      [] action.type = "EquipAction" -> EquipAction(w, action.entity, action.item)
      [] action.type = "DropItem" -> DropItem(w, action.entity, action.item)
      [] action.type = "ItemAction" ->
            ItemAction(w, action.entity, action.item, action.target_xy)

(* tcod.event key symbols, and the key tables of the module, for the keys of
   the model: the arrow and navigation keys and one vi key of MOVE_KEYS, one
   key of each of WAIT_KEYS and CONFIRM_KEYS, one modifier key.  The keys left
   out (the numpad, the other vi keys, K_v of the history viewer) are bound
   like the ones kept or open a screen that has no part in a turn. *)
Keycode ==
    [K_RETURN |-> 13, K_ESCAPE |-> 27, K_PERIOD |-> 46, K_SLASH |-> 47,
     K_a |-> 97, K_b |-> 98, K_c |-> 99, K_d |-> 100, K_e |-> 101, K_g |-> 103,
     K_i |-> 105, K_z |-> 122,
     K_HOME |-> 1073741898, K_PAGEUP |-> 1073741899, K_END |-> 1073741901,
     K_PAGEDOWN |-> 1073741902, K_RIGHT |-> 1073741903, K_LEFT |-> 1073741904,
     K_DOWN |-> 1073741905, K_UP |-> 1073741906, K_LSHIFT |-> 1073742049]

MOVE_KEYS ==
    [K_UP |-> <<0, -1>>, K_DOWN |-> <<0, 1>>, K_LEFT |-> <<-1, 0>>, K_RIGHT |-> <<1, 0>>,
     K_HOME |-> <<-1, -1>>, K_END |-> <<-1, 1>>, K_PAGEUP |-> <<1, -1>>,
     K_PAGEDOWN |-> <<1, 1>>, K_b |-> <<-1, 1>>]
WAIT_KEYS == {"K_PERIOD"}
CONFIRM_KEYS == {"K_RETURN"}
MODIFIER_KEYS == {"K_LSHIFT"}

(* The handlers, and what dispatching an event to one yields: the next
   handler, an action, nothing, or an exception; with the world and the mouse
   location as the event methods leave them *)
Handler(name, i) == [name |-> name, item |-> i]
MainGameEventHandler == Handler("MainGameEventHandler", NoItem)
GameOverEventHandler == Handler("GameOverEventHandler", NoItem)
LevelUpEventHandler == Handler("LevelUpEventHandler", NoItem)
CharacterScreenEventHandler == Handler("CharacterScreenEventHandler", NoItem)
InventoryActivateHandler == Handler("InventoryActivateHandler", NoItem)
InventoryDropHandler == Handler("InventoryDropHandler", NoItem)
LookHandler == Handler("LookHandler", NoItem)
SingleRangedAttackHandler(i) == Handler("SingleRangedAttackHandler", i)
AreaRangedAttackHandler(i) == Handler("AreaRangedAttackHandler", i)

SelectIndexHandlers ==
    {"LookHandler", "SingleRangedAttackHandler", "AreaRangedAttackHandler"}
InventoryHandlers == {"InventoryActivateHandler", "InventoryDropHandler"}

Dispatched(kind, w, mouse, h, action, exc) ==
    [kind |-> kind, w |-> w, mouse |-> mouse, handler |-> h, action |-> action, exc |-> exc]
ToHandler(h, w, mouse) == Dispatched("handler", w, mouse, h, NoAction, "none")
ToAction(action, w, mouse) == Dispatched("action", w, mouse, MainGameEventHandler, action, "none")
ToNone(w, mouse) == Dispatched("none", w, mouse, MainGameEventHandler, NoAction, "none")
Raises(exc, w, mouse) == Dispatched("raise", w, mouse, MainGameEventHandler, NoAction, exc)
(* The exception that the constructor of an action raises *)
RaisesConstructing(action, exc, w, mouse) ==
    Dispatched("raise", w, mouse, MainGameEventHandler, action, exc)

(* SelectIndexHandler.__init__ puts the cursor on the player *)
NewSelectIndexHandler(h, w) ==
    ToHandler(h, w, <<w.actors[Player].x, w.actors[Player].y>>)

MainGameKeydown(w, mouse, sym, shift) ==
    IF sym = "K_PERIOD" /\ shift THEN ToAction(NewTakeStairsAction, w, mouse)
    ELSE IF sym \in DOMAIN MOVE_KEYS
    THEN ToAction(NewBumpAction(MOVE_KEYS[sym][1], MOVE_KEYS[sym][2]), w, mouse)
    ELSE IF sym \in WAIT_KEYS THEN Raises("TypeError", w, mouse)
    ELSE IF sym = "K_ESCAPE" THEN Raises("SystemExit", w, mouse)
    ELSE IF sym = "K_g" THEN ToAction(NewPickupAction, w, mouse)
    ELSE IF sym = "K_i" THEN ToHandler(InventoryActivateHandler, w, mouse)
    ELSE IF sym = "K_d" THEN ToHandler(InventoryDropHandler, w, mouse)
    ELSE IF sym = "K_c" THEN ToHandler(CharacterScreenEventHandler, w, mouse)
    ELSE IF sym = "K_SLASH" THEN NewSelectIndexHandler(LookHandler, w)
    ELSE ToNone(w, mouse)

(* GameOverEventHandler.ev_keydown falling back on the keys of the main game *)
GameOverKeydownPlaysOn(w, mouse, sym) ==
    IF sym = "K_ESCAPE" THEN Raises("QuitWithoutSaving", w, mouse)
    ELSE MainGameKeydown(w, mouse, sym, FALSE)

GameOverKeydown(w, mouse, sym) ==
    IF sym = "K_ESCAPE" THEN Raises("QuitWithoutSaving", w, mouse) ELSE ToNone(w, mouse)

(* AskUserEventHandler.on_exit *)
OnExit(w, mouse) == ToHandler(MainGameEventHandler, w, mouse)

AskUserKeydown(w, mouse, sym) ==
    IF sym \in MODIFIER_KEYS THEN ToNone(w, mouse) ELSE OnExit(w, mouse)

(* LevelUpEventHandler.ev_keydown falling through to the exit of
   AskUserEventHandler on a key that is no option *)
LevelUpKeydownExitsOnAnyKey(w, mouse, sym) ==
    LET index == Keycode[sym] - Keycode["K_a"]
    IN IF 0 <= index /\ index <= 2
       THEN LET w1 == CASE index = 0 -> IncreaseMaxHp(w, Player, LevelUpHpBonus)
                        [] index = 1 -> IncreasePower(w, Player, 1)
                        [] index = 2 -> IncreaseDefense(w, Player, 1)
            IN AskUserKeydown(w1, mouse, sym)
       ELSE AskUserKeydown(AddMessage(w, "Invalid entry", Player, 0, "invalid"), mouse, sym)

LevelUpKeydown(w, mouse, sym) ==
    LET index == Keycode[sym] - Keycode["K_a"]
    IN IF 0 <= index /\ index <= 2
       THEN LET w1 == CASE index = 0 -> IncreaseMaxHp(w, Player, LevelUpHpBonus)
                        [] index = 1 -> IncreasePower(w, Player, 1)
                        [] index = 2 -> IncreaseDefense(w, Player, 1)
            IN AskUserKeydown(w1, mouse, sym)
       ELSE ToNone(AddMessage(w, "Invalid entry", Player, 0, "invalid"), mouse)

(* Consumable.get_action and its overrides *)
GetAction(w, mouse, i) ==
    IF i = ConfusionScroll
    THEN NewSelectIndexHandler(SingleRangedAttackHandler(i),
             AddMessage(w, "Select a target location.", i, 0, "needs_target"))
    ELSE IF i = FireballScroll
    THEN NewSelectIndexHandler(AreaRangedAttackHandler(i),
             AddMessage(w, "Select a target location.", i, 0, "needs_target"))
    ELSE ToAction(NewItemAction(i, <<w.actors[Player].x, w.actors[Player].y>>), w, mouse)

OnItemSelected(h, w, mouse, i) ==
    IF h.name = "InventoryActivateHandler"
    THEN IF Consumable(i) THEN GetAction(w, mouse, i)
         ELSE IF Equippable(i) THEN ToAction(NewEquipAction(i), w, mouse)
         ELSE ToNone(w, mouse)
    ELSE RaisesConstructing(NewDropItem(i), "TypeError", w, mouse)

InventoryKeydown(h, w, mouse, sym) ==
    LET index == Keycode[sym] - Keycode["K_a"]
        inventory == w.actors[Player].inventory
    IN IF 0 <= index /\ index <= 26
       THEN IF index + 1 > Len(inventory)
            THEN ToNone(AddMessage(w, "Invalid entry.", Player, 0, "invalid"), mouse)
            ELSE OnItemSelected(h, w, mouse, inventory[index + 1])
       ELSE AskUserKeydown(w, mouse, sym)

OnIndexSelected(h, w, mouse, xy) ==
    IF h.name = "LookHandler" THEN ToHandler(MainGameEventHandler, w, mouse)
    ELSE ToAction(NewItemAction(h.item, xy), w, mouse)

SelectIndexKeydown(h, w, mouse, sym, shift) ==
    IF sym \in DOMAIN MOVE_KEYS
    THEN LET modifier == IF shift THEN 5 ELSE 1
             x == Max(0, Min(mouse[1] + MOVE_KEYS[sym][1] * modifier, MapWidth - 1))
             y == Max(0, Min(mouse[2] + MOVE_KEYS[sym][2] * modifier, MapHeight - 1))
         IN ToNone(w, <<x, y>>)
    ELSE IF sym \in CONFIRM_KEYS THEN OnIndexSelected(h, w, mouse, mouse)
    ELSE AskUserKeydown(w, mouse, sym)

EvKeydown(h, w, mouse, sym, shift) ==
    CASE h.name = "MainGameEventHandler" -> MainGameKeydown(w, mouse, sym, shift)
      [] h.name = "GameOverEventHandler" -> GameOverKeydown(w, mouse, sym)
      [] h.name = "LevelUpEventHandler" -> LevelUpKeydown(w, mouse, sym)
      [] h.name = "CharacterScreenEventHandler" -> AskUserKeydown(w, mouse, sym)
      [] h.name \in InventoryHandlers -> InventoryKeydown(h, w, mouse, sym)
      [] h.name \in SelectIndexHandlers -> SelectIndexKeydown(h, w, mouse, sym, shift)

EvMouseButtonDown(h, w, mouse, tile, button) ==
    CASE h.name \in {"MainGameEventHandler", "GameOverEventHandler", "LevelUpEventHandler"} ->
            ToNone(w, mouse)
      [] h.name \in InventoryHandlers \cup {"CharacterScreenEventHandler"} ->
            OnExit(w, mouse)
      [] h.name \in SelectIndexHandlers ->
            IF InBounds(tile[1], tile[2]) /\ button = 1
            THEN OnIndexSelected(h, w, mouse, tile)
            ELSE OnExit(w, mouse)

EvMouseMotion(h, w, mouse, tile) ==
    IF InBounds(tile[1], tile[2]) THEN ToNone(w, tile) ELSE ToNone(w, mouse)

(* ev_quit without the override of GameOverEventHandler *)
EvQuitOrdinary(h, w, mouse) == Raises("SystemExit", w, mouse)

EvQuit(h, w, mouse) ==
    IF h.name = "GameOverEventHandler"
    THEN Raises("QuitWithoutSaving", w, mouse)
    ELSE Raises("SystemExit", w, mouse)

(* EventHandler.handle_action: what the call leaves behind, the exception
   that leaves it (only Impossible is caught), and whether a turn advanced *)
Handled(w, exc, advanced) == [w |-> w, exc |-> exc, advanced |-> advanced]

(* handle_action letting the enemies act after a rejected action *)
HandleActionEnemiesActAnyway(w, action) ==
    IF action.type = "None"
    THEN {Handled(w, "none", FALSE)}
    ELSE UNION {
            CASE o.exc = "Impossible" ->
                    {Handled(w1, "none", FALSE) :
                        w1 \in HandleEnemyTurns(
                                  AddMessage(Called(o.w, "Impossible"), o.reason, Player, 0,
                                             "impossible"))}
              [] o.exc = "none" ->
                    {Handled(UpdateFov(w1), "none", TRUE) : w1 \in HandleEnemyTurns(o.w)}
              [] OTHER -> {Handled(o.w, o.exc, FALSE)} :
            o \in Perform(Called(w, "perform"), action)}

(* handle_action recomputing the field of view before the enemies act *)
HandleActionFovFirst(w, action) ==
    IF action.type = "None"
    THEN {Handled(w, "none", FALSE)}
    ELSE UNION {
            CASE o.exc = "Impossible" ->
                    {Handled(AddMessage(Called(o.w, "Impossible"), o.reason, Player, 0,
                                        "impossible"),
                             "none", FALSE)}
              [] o.exc = "none" ->
                    {Handled(w1, "none", TRUE) : w1 \in HandleEnemyTurns(UpdateFov(o.w))}
              [] OTHER -> {Handled(o.w, o.exc, FALSE)} :
            o \in Perform(Called(w, "perform"), action)}

HandleAction(w, action) ==
    IF action.type = "None"
    THEN {Handled(w, "none", FALSE)}
    ELSE UNION {
            CASE o.exc = "Impossible" ->
                    {Handled(AddMessage(Called(o.w, "Impossible"), o.reason, Player, 0,
                                        "impossible"),
                             "none", FALSE)}
              [] o.exc = "none" ->
                    {Handled(UpdateFov(w1), "none", TRUE) : w1 \in HandleEnemyTurns(o.w)}
              [] OTHER -> {Handled(o.w, o.exc, FALSE)} :
            o \in Perform(Called(w, "perform"), action)}

(* The events of the main loop *)
KeyDownEvent(sym, shift) ==
    [type |-> "KeyDown", sym |-> sym, shift |-> shift, tile |-> <<0, 0>>, button |-> 0]
MouseButtonDownEvent(tile, button) ==
    [type |-> "MouseButtonDown", sym |-> "", shift |-> FALSE, tile |-> tile, button |-> button]
MouseMotionEvent(tile) ==
    [type |-> "MouseMotion", sym |-> "", shift |-> FALSE, tile |-> tile, button |-> 0]
QuitEvent ==
    [type |-> "Quit", sym |-> "", shift |-> FALSE, tile |-> <<0, 0>>, button |-> 0]

(* tcod.event.EventDispatch.dispatch *)
Dispatch(h, w, mouse, event) ==
    CASE event.type = "KeyDown" -> EvKeydown(h, w, mouse, event.sym, event.shift)
      [] event.type = "MouseButtonDown" ->
            EvMouseButtonDown(h, w, mouse, event.tile, event.button)
      [] event.type = "MouseMotion" -> EvMouseMotion(h, w, mouse, event.tile)
      [] event.type = "Quit" -> EvQuit(h, w, mouse)

(* EventHandler.handle_events: the next handler, with the world, the mouse
   location, the action that was resolved and the exception that left the call *)
Outcome(w, mouse, h, action, exc, advanced) ==
    [w |-> w, mouse |-> mouse, handler |-> h, action |-> action, exc |-> exc,
     advanced |-> advanced]

(* The choice of the next handler testing the level-up before the death *)
NextHandlerLevelUpFirst(w) ==
    IF RequiresLevelUp(w.actors[Player]) THEN LevelUpEventHandler
    ELSE IF w.actors[Player].ai = NoAI THEN GameOverEventHandler
    ELSE MainGameEventHandler

(* The choice of the next handler offering a level-up after every turn *)
NextHandlerAlwaysLevelUp(w) ==
    IF w.actors[Player].ai = NoAI THEN GameOverEventHandler ELSE LevelUpEventHandler

NextHandler(w) ==
    IF w.actors[Player].ai = NoAI THEN GameOverEventHandler
    ELSE IF RequiresLevelUp(w.actors[Player]) THEN LevelUpEventHandler
    ELSE MainGameEventHandler

HandleEvents(h, w, mouse, event) ==
    LET d == Dispatch(h, w, mouse, event)
    IN CASE d.kind = "handler" ->
               {Outcome(d.w, d.mouse, d.handler, NoAction, "none", FALSE)}
         [] d.kind = "raise" ->
               {Outcome(d.w, d.mouse, h, d.action, d.exc, FALSE)}
         [] OTHER ->
               {IF r.advanced
                THEN Outcome(r.w, d.mouse, NextHandler(r.w), d.action, r.exc, TRUE)
                ELSE Outcome(r.w, d.mouse, h, d.action, r.exc, FALSE) :
                   r \in HandleAction(d.w, d.action)}

----------------------------------------------------------------------------
(* entity_factories.py: the templates, and Entity.spawn *)

ActorTemplate(char, hp, defense, power, capacity, level_up_base, xp_given) ==
    [x |-> 0, y |-> 0, parent |-> NoParent, char |-> char, blocks_movement |-> TRUE,
     render_order |-> "ACTOR", ai |-> HostileEnemy(<<>>),
     hp |-> hp, max_hp |-> hp, base_defense |-> defense, base_power |-> power,
     weapon |-> NoItem, armor |-> NoItem, inventory |-> <<>>, capacity |-> capacity,
     current_level |-> 1, current_xp |-> 0, level_up_base |-> level_up_base,
     level_up_factor |-> LevelUpFactor, xp_given |-> xp_given]

PlayerTemplate ==
    ActorTemplate("@", PlayerHp, PlayerDefense, PlayerPower, PlayerCapacity,
                  PlayerLevelUpBase, 0)
OrcTemplate == ActorTemplate("o", OrcHp, OrcDefense, OrcPower, 0, 0, OrcXp)
TrollTemplate == ActorTemplate("T", TrollHp, TrollDefense, TrollPower, 0, 0, TrollXp)
ItemTemplate == [x |-> 0, y |-> 0, parent |-> NoParent]

Spawn(e, x, y) == [e EXCEPT !.x = x, !.y = y, !.parent = MapParent]
Carried(e, a) == [e EXCEPT !.parent = a]

ActorTemplates ==
    [a \in ActorIds |->
        IF a = Player THEN PlayerTemplate
        ELSE IF a = Troll THEN TrollTemplate ELSE OrcTemplate]
ItemTemplates == [i \in ItemIds |-> ItemTemplate]

(* The games the model starts from.  Each is a state that play reaches:
   "fresh" is a floor as it is entered, with an orc in view and two items on
   the floor; "horde" is a first-level player who killed three orcs and a
   troll before, carries a fireball scroll, and stands between two walls
   with six orcs on the other cells around, at full health or with as many
   hit points as a fireball takes; "stairs" is a player next to the
   downstairs of a floor without monsters, lightly wounded, carrying a potion
   and two scrolls. *)
Scene(placed_actors, placed_items) ==
    [actors |-> [a \in ActorIds |->
                    IF a \in DOMAIN placed_actors THEN placed_actors[a]
                    ELSE ActorTemplates[a]],
     items |-> [i \in ItemIds |->
                    IF i \in DOMAIN placed_items THEN placed_items[i]
                    ELSE ItemTemplates[i]],
     entities |-> DOMAIN placed_actors \cup
                  {i \in DOMAIN placed_items : placed_items[i].parent = MapParent}]

OrcStart == <<4, 1>>

FreshScene ==
    Scene([player |-> [Spawn(PlayerTemplate, PlayerStart[1], PlayerStart[2]) EXCEPT
                          !.inventory = <<LightningScroll, ConfusionScroll>>],
           orc1 |-> Spawn(OrcTemplate, OrcStart[1], OrcStart[2])],
          [health_potion |-> Spawn(ItemTemplate, 1, 1),
           dagger |-> Spawn(ItemTemplate, 2, 1),
           lighting_scroll |-> Carried(ItemTemplate, Player),
           confusion_scroll |-> Carried(ItemTemplate, Player)])

HordeScene(hp) ==
    Scene([player |-> [Spawn(PlayerTemplate, PlayerStart[1], PlayerStart[2]) EXCEPT
                          !.hp = hp, !.current_xp = 3 * OrcXp + TrollXp,
                          !.inventory = <<FireballScroll>>],
           orc1 |-> Spawn(OrcTemplate, 1, 0), orc2 |-> Spawn(OrcTemplate, 2, 0),
           orc3 |-> Spawn(OrcTemplate, 0, 1), orc4 |-> Spawn(OrcTemplate, 2, 1),
           orc5 |-> Spawn(OrcTemplate, 1, 2), orc6 |-> Spawn(OrcTemplate, 2, 2)],
          [fireball_scroll |-> Carried(ItemTemplate, Player)])

StairsScene ==
    Scene([player |-> [Spawn(PlayerTemplate, DownstairsLocation[1] - 1,
                             DownstairsLocation[2]) EXCEPT
                          !.hp = PlayerHp - HealAmount + 1,
                          !.inventory = <<HealthPotion, LightningScroll,
                                          FireballScroll>>]],
          [health_potion |-> Carried(ItemTemplate, Player),
           lighting_scroll |-> Carried(ItemTemplate, Player),
           fireball_scroll |-> Carried(ItemTemplate, Player)])

Scenes == {FreshScene, HordeScene(PlayerHp), HordeScene(FireballDamage), StairsScene}

(* "packed": a player who collected potions until one more item fits the
   inventory, wounded by two potions and one hit point, standing on a dagger
   and a scroll; an orc, which has an inventory of capacity 0, stands on
   another scroll *)
PackedScene ==
    Scene([player |-> [Spawn(PlayerTemplate, PlayerStart[1], PlayerStart[2]) EXCEPT
                          !.hp = PlayerHp - 2 * HealAmount - 1,
                          !.inventory = <<HealthPotion, ConfusionScroll>> \o SparePotionList],
           orc1 |-> Spawn(OrcTemplate, OrcStart[1], OrcStart[2])],
          [i \in ItemIds |->
              IF i \in {Dagger, LightningScroll}
              THEN Spawn(ItemTemplate, PlayerStart[1], PlayerStart[2])
              ELSE IF i = FireballScroll
              THEN Spawn(ItemTemplate, OrcStart[1], OrcStart[2])
              ELSE Carried(ItemTemplate, Player)])

(* "armed": a player who carries a dagger and a sword, none of them equipped,
   on a floor without monsters *)
ArmedScene ==
    Scene([a \in {Player} |->
              [Spawn(PlayerTemplate, PlayerStart[1], PlayerStart[2]) EXCEPT
                  !.inventory = <<Dagger, Sword>>]],
          [i \in Weapons |-> Carried(ItemTemplate, Player)])

ItemScenes == {FreshScene, StairsScene, PackedScene, ArmedScene}

----------------------------------------------------------------------------
(* The state of the program, as the record the operators work on, and back *)

NoCalls == [a \in ActorIds |-> 0]

World ==
    [actors |-> actors, items |-> items, entities |-> game_map.entities,
     visible |-> game_map.visible, floor |-> current_floor,
     log |-> EmptyBag, calls |-> <<>>, ai_calls |-> NoCalls,
     die_calls |-> history.die_calls, xp_awarded |-> history.xp_awarded]

Store(w) ==
    /\ actors' = w.actors
    /\ items' = w.items
    /\ game_map' = [entities |-> w.entities, visible |-> w.visible]
    /\ current_floor' = w.floor
    /\ message_log' = w.log

History(w, action, exc) ==
    [action |-> action, exc |-> exc, reason |-> "", calls |-> w.calls,
     ai_calls |-> w.ai_calls, die_calls |-> w.die_calls, xp_awarded |-> w.xp_awarded]

InitFrom(scenes) ==
    \E s \in scenes :
        /\ actors = s.actors
        /\ items = s.items
        /\ game_map = [entities |-> s.entities,
                       visible |-> ComputeFov(s.actors[Player].x, s.actors[Player].y)]
        /\ current_floor = 1
        /\ message_log = EmptyBag
        /\ handler = MainGameEventHandler
        /\ mouse_location = <<0, 0>>
        /\ running = "running"
        /\ events = 0
        /\ history = [action |-> NoAction, exc |-> "none", reason |-> "",
                      calls |-> <<>>, ai_calls |-> NoCalls, die_calls |-> NoCalls,
                      xp_awarded |-> NoCalls]

Init == InitFrom(Scenes)

(* main.py: one iteration of the loop hands one event to the active handler,
   and an exception that leaves handle_events ends the run *)
MainLoop(event) ==
    /\ running = "running"
    /\ events < MaxEvents
    /\ \E r \in HandleEvents(handler, World, mouse_location, event) :
          /\ r.w.floor <= MaxFloor
          /\ Store(r.w)
          /\ handler' = r.handler
          /\ mouse_location' = r.mouse
          /\ running' = IF r.exc = "none" THEN "running" ELSE r.exc
          /\ events' = events + 1
          /\ history' = History(r.w, r.action, r.exc)

(* The inputs: the keys that are pressed, alone, and with shift the key
   that shift changes; the tiles the mouse reports, in and outside the map *)
Keys ==
    {"K_RETURN", "K_ESCAPE", "K_PERIOD", "K_SLASH", "K_a", "K_b", "K_c", "K_d", "K_g",
     "K_i", "K_z", "K_HOME", "K_RIGHT", "K_LEFT", "K_LSHIFT"}
ShiftKeys == {"K_PERIOD"}
KeyInputs == (Keys \X {FALSE}) \cup (ShiftKeys \X {TRUE})
MouseTiles == {PlayerStart, OrcStart, <<MapWidth, 0>>}

KeyDown == \E k \in KeyInputs : MainLoop(KeyDownEvent(k[1], k[2]))
MouseButtonDown ==
    \E tile \in MouseTiles, button \in {1, 3} : MainLoop(MouseButtonDownEvent(tile, button))
MouseMotion == \E tile \in MouseTiles : MainLoop(MouseMotionEvent(tile))
Quit == MainLoop(QuitEvent)

Next == KeyDown \/ MouseButtonDown \/ MouseMotion \/ Quit

Spec == Init /\ [][Next]_vars

----------------------------------------------------------------------------
(* The components and the actions called directly, one call per step, on
   the actors of the same games: the methods of Fighter and Level with
   arguments from bounded sets, and perform() of every action variant *)

MaxCalls == 2
MaxOver == 2

UnitActors == {Player, "orc1"}
(* The values written to hp: from below 0 to above the max_hp of an orc *)
HpWrites == (0 - MaxOver) .. (OrcHp + MaxOver)
(* The damages of the game (melee either way, fireball, lightning), none,
   and a negative one *)
DamageInputs ==
    {0 - MaxOver, 0, OrcPower - PlayerDefense, PlayerPower - OrcDefense, FireballDamage,
     LightningDamage}
HealInputs == {0, 1, HealAmount}
(* The experience that brings the player of the horde exactly to the
   threshold of the first level, one more, and the experience of kills *)
ToThreshold == ExperienceToNextLevel(PlayerTemplate) - (3 * OrcXp + TrollXp)
XpInputs == {0, ToThreshold, ToThreshold + 1, OrcXp, 6 * OrcXp}
IncreaseInputs == {1, LevelUpHpBonus}
TargetTiles == {PlayerStart, OrcStart, DownstairsLocation, <<MapWidth - 1, 0>>}

Call(type, a, arg) ==
    [type |-> type, entity |-> a, item |-> NoItem, dx |-> arg, dy |-> 0,
     target_xy |-> <<0, 0>>]

(* One call: the world it leaves, and the record of the call *)
Returns(w, call, exc) ==
    /\ Store(w)
    /\ history' = History(w, call, exc)
    /\ events' = events + 1
    /\ UNCHANGED <<handler, mouse_location, running>>

OnMap(a) == events < MaxCalls /\ a \in game_map.entities

HpSetter ==
    \E a \in UnitActors, value \in HpWrites :
        OnMap(a) /\ Returns(SetHp(World, a, value), Call("hp", a, value), "none")

FighterTakeDamage ==
    \E a \in UnitActors, amount \in DamageInputs :
        OnMap(a) /\ Returns(TakeDamage(World, a, amount), Call("take_damage", a, amount), "none")

FighterHeal ==
    \E a \in UnitActors, amount \in HealInputs :
        OnMap(a) /\ Returns(Heal(World, a, amount).w, Call("heal", a, amount), "none")

LevelAddXp ==
    \E a \in UnitActors, xp \in XpInputs :
        OnMap(a) /\ Returns(AddXp(World, a, xp), Call("add_xp", a, xp), "none")

LevelIncreaseLevel ==
    \E a \in UnitActors :
        OnMap(a) /\ Returns(IncreaseLevel(World, a), Call("increase_level", a, 0), "none")

LevelIncreaseMaxHp ==
    \E a \in UnitActors, amount \in IncreaseInputs :
        OnMap(a) /\ Returns(IncreaseMaxHp(World, a, amount),
                            Call("increase_max_hp", a, amount), "none")

LevelIncreasePower ==
    \E a \in UnitActors, amount \in IncreaseInputs :
        OnMap(a) /\ Returns(IncreasePower(World, a, amount),
                            Call("increase_power", a, amount), "none")

LevelIncreaseDefense ==
    \E a \in UnitActors, amount \in IncreaseInputs :
        OnMap(a) /\ Returns(IncreaseDefense(World, a, amount),
                            Call("increase_defense", a, amount), "none")

(* perform() of one action of an actor *)
Performs(a, action) ==
    /\ OnMap(a)
    /\ \E o \in Perform(World, [action EXCEPT !.entity = a]) :
          /\ Store(o.w)
          /\ history' = [History(o.w, [action EXCEPT !.entity = a], o.exc)
                            EXCEPT !.reason = o.reason]
          /\ events' = events + 1
          /\ UNCHANGED <<handler, mouse_location, running>>

Steps == Directions \cup {<<0, 0>>}

PerformBump == \E a \in UnitActors, d \in Steps : Performs(a, NewBumpAction(d[1], d[2]))
PerformMelee == \E a \in UnitActors, d \in Steps : Performs(a, NewMeleeAction(d[1], d[2]))
PerformMovement ==
    \E a \in UnitActors, d \in Steps : Performs(a, NewMovementAction(d[1], d[2]))
PerformPickup == \E a \in UnitActors : Performs(a, NewPickupAction)
PerformTakeStairs == \E a \in UnitActors : Performs(a, NewTakeStairsAction)
PerformItem ==
    \E a \in UnitActors, xy \in TargetTiles :
        \E k \in 1 .. Len(actors[a].inventory) :
            Performs(a, NewItemAction(actors[a].inventory[k], xy))

UnitNext ==
    \/ HpSetter
    \/ FighterTakeDamage
    \/ FighterHeal
    \/ LevelAddXp
    \/ LevelIncreaseLevel
    \/ LevelIncreaseMaxHp
    \/ LevelIncreasePower
    \/ LevelIncreaseDefense
    \/ PerformBump
    \/ PerformMelee
    \/ PerformMovement
    \/ PerformPickup
    \/ PerformTakeStairs
    \/ PerformItem

UnitSpec == Init /\ [][UnitNext]_vars

----------------------------------------------------------------------------
(* The item actions called directly, in sequences of up to MaxItemCalls
   calls: pickup by the player and by an orc, and drop, use, equip, stairs
   and movement by the player, who picks the item by its place in the
   inventory: one of the first three, or the last *)

MaxItemCalls == 4

ItemInit == InitFrom(ItemScenes)

Places(inventory) == {k \in 1 .. Len(inventory) : k <= 3 \/ k = Len(inventory)}

ItemPerforms(a, action) ==
    /\ events < MaxItemCalls
    /\ a \in game_map.entities
    /\ \E o \in Perform(World, [action EXCEPT !.entity = a]) :
          /\ Store(o.w)
          /\ history' = [History(o.w, [action EXCEPT !.entity = a], o.exc)
                            EXCEPT !.reason = o.reason]
          /\ events' = events + 1
          /\ UNCHANGED <<handler, mouse_location, running>>

ItemPickup == \E a \in UnitActors : ItemPerforms(a, NewPickupAction)
ItemDrop ==
    \E k \in Places(actors[Player].inventory) :
        ItemPerforms(Player, NewDropItem(actors[Player].inventory[k]))
ItemUse ==
    \E k \in Places(actors[Player].inventory), xy \in TargetTiles :
        ItemPerforms(Player, NewItemAction(actors[Player].inventory[k], xy))
ItemEquip ==
    \E k \in Places(actors[Player].inventory) :
        /\ Equippable(actors[Player].inventory[k])
        /\ ItemPerforms(Player, NewEquipAction(actors[Player].inventory[k]))
ItemStairs == ItemPerforms(Player, NewTakeStairsAction)
ItemMove == \E d \in Steps : ItemPerforms(Player, NewMovementAction(d[1], d[2]))

ItemNext == ItemPickup \/ ItemDrop \/ ItemUse \/ ItemEquip \/ ItemStairs \/ ItemMove

ItemSpec == ItemInit /\ [][ItemNext]_vars

----------------------------------------------------------------------------
(* The perform() of the AI of one actor called directly, in sequences of up
   to MaxAiCalls calls, on a floor with three orcs that were confused for
   0, 1 and 2 turns, one of them wounded in some games.  ai_calls counts
   the calls of each actor over the whole sequence. *)

MaxAiCalls == 4

ConfusedOrcs == {"orc1", "orc2", "orc3"}
TurnsGiven(a) == CASE a = "orc1" -> 0 [] a = "orc2" -> 1 [] OTHER -> 2
Confused(e, turns_remaining) ==
    [e EXCEPT !.ai = ConfusedEnemy(HostileEnemy(<<>>), turns_remaining)]

ConfusedScene ==
    Scene([player |-> Spawn(PlayerTemplate, PlayerStart[1], PlayerStart[2]),
           orc1 |-> Confused(Spawn(OrcTemplate, 3, 1), TurnsGiven("orc1")),
           orc2 |-> Confused(Spawn(OrcTemplate, 2, 1), TurnsGiven("orc2")),
           orc3 |-> Confused(Spawn(OrcTemplate, MapWidth - 1, 0), TurnsGiven("orc3"))],
          [i \in {HealthPotion} |-> Carried(ItemTemplate, Player)])

(* the same floor after a fight: the orc next to the confused orc2 has as
   many hit points left as the blow of an orc takes *)
WoundedScene == [ConfusedScene EXCEPT !.actors["orc1"].hp = OrcPower - OrcDefense]

AiInit == InitFrom({ConfusedScene, WoundedScene})

NewAIPerform(a) == [NoAction EXCEPT !.type = "AIPerform", !.entity = a]

AiInvokes ==
    \E a \in MapActors(World) \ {Player} :
        /\ events < MaxAiCalls
        /\ \E o \in AIPerform([World EXCEPT !.ai_calls = history.ai_calls], a) :
              /\ Store(o.w)
              /\ history' = [History(o.w, NewAIPerform(a), o.exc) EXCEPT !.reason = o.reason]
              /\ events' = events + 1
              /\ UNCHANGED <<handler, mouse_location, running>>

AiNext == AiInvokes

AiSpec == AiInit /\ [][AiNext]_vars

----------------------------------------------------------------------------
(* The perform() of the AI of hostile orcs called directly, between moves of
   the player after which the field of view is recomputed, in sequences of
   up to MaxHuntCalls calls.  The player stands at the east end of the
   floor, where the three cells around the west end are out of sight: orc1
   stands on one of them with a cached path, orc2 next to the player, orc3
   in sight at a distance with a cached path that leads away from the
   player, and orc4, in some scenes, on the cell that the paths of orc1
   begin with.  ai_calls counts the calls of each actor over the whole
   sequence. *)

MaxHuntCalls == 4

HunterStart == <<1, 0>>
HuntPaths ==
    {<<>>, <<<<0, 1>>, <<1, 2>>>>, <<<<0, 1>>, <<1, 1>>, <<2, 1>>>>, <<<<2, 0>>, <<3, 0>>>>}

Hunting(e, path) == [e EXCEPT !.ai = HostileEnemy(path)]

HuntScene(path, blocked) ==
    Scene([a \in {Player, "orc1", "orc2", "orc3"} \cup (IF blocked THEN {"orc4"} ELSE {}) |->
              CASE a = Player -> Spawn(PlayerTemplate, MapWidth - 1, 1)
                [] a = "orc1" -> Hunting(Spawn(OrcTemplate, HunterStart[1], HunterStart[2]), path)
                [] a = "orc2" -> Hunting(Spawn(OrcTemplate, MapWidth - 2, 1), <<<<MapWidth - 3, 1>>>>)
                [] a = "orc3" -> Hunting(Spawn(OrcTemplate, 4, 1), <<<<3, 1>>>>)
                [] OTHER -> Spawn(OrcTemplate, 0, 1)],
          [i \in {HealthPotion} |-> Carried(ItemTemplate, Player)])

HuntScenes == {HuntScene(path, blocked) : path \in HuntPaths, blocked \in BOOLEAN}

HuntInit == InitFrom(HuntScenes)

HuntInvokes ==
    \E a \in MapActors(World) \ {Player} :
        /\ events < MaxHuntCalls
        /\ \E o \in AIPerform([World EXCEPT !.ai_calls = history.ai_calls], a) :
              /\ Store(o.w)
              /\ history' = [History(o.w, NewAIPerform(a), o.exc) EXCEPT !.reason = o.reason]
              /\ events' = events + 1
              /\ UNCHANGED <<handler, mouse_location, running>>

(* A move of the player as Engine resolves it, without the enemy turns: the
   field of view is recomputed when the action did not raise *)
HuntPlayerMoves ==
    \E d \in Directions :
        /\ events < MaxHuntCalls
        /\ Player \in MapActors(World)
        /\ \E o \in MovementAction([World EXCEPT !.ai_calls = history.ai_calls],
                                   Player, d[1], d[2]) :
              LET w == IF o.exc = "none" THEN UpdateFov(o.w) ELSE o.w
              IN /\ Store(w)
                 /\ history' = [History(w, NewMovementAction(d[1], d[2]), o.exc)
                                   EXCEPT !.reason = o.reason]
                 /\ events' = events + 1
                 /\ UNCHANGED <<handler, mouse_location, running>>

HuntNext == HuntInvokes \/ HuntPlayerMoves

HuntSpec == HuntInit /\ [][HuntNext]_vars

----------------------------------------------------------------------------
(* BaseAI.get_path_to called directly on the AI of a monster, for every
   destination cell of the floor, between moves of the actors, in sequences
   of up to MaxPathCalls steps.  The floor is the fresh floor, or the floor
   of the horde, where the orc between the two walls has a blocking entity on
   every cell around it.  The history keeps the path that the call returned;
   a call changes nothing, so that a second call in a row returns the same
   paths and is left out. *)

MaxPathCalls == 2

PathInit == InitFrom({FreshScene, HordeScene(PlayerHp)})

NewGetPathTo(a, dest) == [NoAction EXCEPT !.type = "GetPathTo", !.entity = a, !.target_xy = dest]

PathInvokes ==
    \E a \in MapActors(World) \ {Player}, dest \in Cells :
        /\ events < MaxPathCalls
        /\ history.action.type # "GetPathTo"
        /\ \E path \in GetPathTo(World, a, dest[1], dest[2]) :
              /\ history' = History(World, NewGetPathTo(a, dest), "none") @@ [path |-> path]
              /\ events' = events + 1
              /\ UNCHANGED <<actors, items, game_map, current_floor, message_log,
                             handler, mouse_location, running>>

PathActorMoves ==
    \E a \in MapActors(World), d \in Directions :
        /\ events < MaxPathCalls
        /\ \E o \in MovementAction(World, a, d[1], d[2]) :
              /\ o.exc = "none"
              /\ Store(o.w)
              /\ history' = History(o.w, NewMovementAction(d[1], d[2]), o.exc)
              /\ events' = events + 1
              /\ UNCHANGED <<handler, mouse_location, running>>

PathNext == PathInvokes \/ PathActorMoves

PathSpec == PathInit /\ [][PathNext]_vars

----------------------------------------------------------------------------
(* The turns of a confused orc, without a bound on their number: the orc,
   confused for two turns before, stands next to the player, who carries a
   confusion scroll and may read it at any tile at any time, also while the
   orc is still confused.  Engine.handle_enemy_turns gives every living
   actor its turn in every turn of the player, so that a confused actor that
   stays alive is invoked again and again: weak fairness of its turn. *)

DazedOrcs == {"orc1"}

DazedScene ==
    Scene([a \in {Player} \cup DazedOrcs |->
              IF a = Player
              THEN [Spawn(PlayerTemplate, PlayerStart[1], PlayerStart[2]) EXCEPT
                       !.inventory = <<ConfusionScroll>>]
              ELSE Confused(Spawn(OrcTemplate, PlayerStart[1] + 1, PlayerStart[2]), 2)],
          [i \in {ConfusionScroll} |-> Carried(ItemTemplate, Player)])

DazedInit == InitFrom({DazedScene})

ConfusedTurn(a) ==
    /\ a \in MapActors(World)
    /\ actors[a].ai.type = "Confused"
    /\ \E o \in AIPerform(World, a) :
          /\ Store(o.w)
          /\ history' = [History(o.w, NewAIPerform(a), o.exc) EXCEPT !.reason = o.reason]
          /\ UNCHANGED <<events, handler, mouse_location, running>>

ReadsScroll ==
    \E xy \in Cells :
        /\ InSeq(actors[Player].inventory, ConfusionScroll)
        /\ \E o \in ItemAction(World, Player, ConfusionScroll, xy) :
              /\ Store(o.w)
              /\ history' = [History(o.w, NewItemAction(ConfusionScroll, xy), o.exc)
                                EXCEPT !.reason = o.reason]
              /\ UNCHANGED <<events, handler, mouse_location, running>>

ConfusedTurns == \E a \in DazedOrcs : ConfusedTurn(a)

DazedNext == ConfusedTurns \/ ReadsScroll

ConfusionSpec ==
    DazedInit /\ [][DazedNext]_vars /\ \A a \in DazedOrcs : WF_vars(ConfusedTurn(a))

----------------------------------------------------------------------------
(* Properties *)

Range(seq) == {seq[k] : k \in 1 .. Len(seq)}
Position(a) == <<actors[a].x, actors[a].y>>
(* The number of messages of the latest event with this text about this entity *)
Logged(log, text, who) ==
    LET ms == {m \in BagToSet(log) : m.text = text /\ m.who = who}
        RECURSIVE Sum(_)
        Sum(S) == IF S = {} THEN 0
                  ELSE LET m == CHOOSE m \in S : TRUE
                       IN CopiesIn(m, log) + Sum(S \ {m})
    IN Sum(ms)
(* The last call was one of these methods *)
LastCall(types) == history.action.type \in types

(* C1: after every write to the hp of a Fighter (assignment, take_damage,
   heal, melee damage, increase_max_hp) the stored hp lies in [0, max_hp] *)
C1_HpWithinBounds ==
    \A a \in ActorIds : 0 <= actors[a].hp /\ actors[a].hp <= actors[a].max_hp

(* a value above max_hp was assigned, and max_hp was stored *)
C1_WriteAboveMaxClamped ==
    /\ LastCall({"hp"})
    /\ history.action.dx > actors[history.action.entity].max_hp
    /\ actors[history.action.entity].hp = actors[history.action.entity].max_hp

DeathMessage(a) == IF a = Player THEN "You died!" ELSE "is dead!"

C2_DeadOnce(a) ==
    /\ history.die_calls[a] <= 1
    /\ history.die_calls[a] = 1 <=> actors[a].ai = NoAI
    /\ actors[a].hp = 0 => history.die_calls[a] = 1
    /\ actors[a].ai = NoAI =>
          /\ actors[a].char = "%"
          /\ ~actors[a].blocks_movement
          /\ actors[a].render_order = "CORPSE"
    /\ history.xp_awarded[a] =
          IF history.die_calls[a] = 1 /\ a # Player THEN actors[a].xp_given ELSE 0

C2_DiesOnReachingZero(a) ==
    /\ history'.die_calls[a] >= history.die_calls[a]
    /\ history'.die_calls[a] > history.die_calls[a] =>
          actors[a].hp > 0 /\ actors'[a].hp = 0
    /\ Logged(message_log', DeathMessage(a), a) =
          history'.die_calls[a] - history.die_calls[a]

(* C2: over any sequence of hp writes the death transition of an actor (AI
   cleared, corpse appearance, death message, experience awarded) happens
   exactly once, in the write that brings hp from above 0 to 0, and never on
   a later write *)
C2_DeathTransitionOnce ==
    /\ [](\A a \in ActorIds : C2_DeadOnce(a))
    /\ [][\A a \in ActorIds : C2_DiesOnReachingZero(a)]_vars

(* 0 was written to the hp of an actor that had died before, and nothing died *)
C2_WriteToCorpse ==
    /\ LastCall({"hp", "take_damage"})
    /\ history.die_calls[history.action.entity] = 1
    /\ actors[history.action.entity].hp = 0
    /\ Logged(message_log, DeathMessage(history.action.entity), history.action.entity) = 0

(* The destination of the action of the last call, from the position before *)
Destination(call) ==
    <<actors[call.entity].x + call.dx, actors[call.entity].y + call.dy>>
BlockedAt(cell) ==
    \/ cell \notin Cells
    \/ cell \in Walls
    \/ \E a \in ActorIds \cap game_map.entities :
          actors[a].blocks_movement /\ Position(a) = cell

(* C3: MovementAction(dx, dy) raises Impossible and leaves the position of
   the actor unchanged when the destination is out of bounds, not walkable or
   holds a blocking entity; otherwise the position becomes (x + dx, y + dy) *)
C3_MovementAction ==
    [][history'.action.type = "MovementAction" =>
          LET call == history'.action
          IN IF BlockedAt(Destination(call))
             THEN /\ history'.exc = "Impossible"
                  /\ actors'[call.entity].x = actors[call.entity].x
                  /\ actors'[call.entity].y = actors[call.entity].y
             ELSE /\ history'.exc = "none"
                  /\ <<actors'[call.entity].x, actors'[call.entity].y>> = Destination(call)]_vars

(* a MovementAction onto a walkable cell of the map that another entity
   blocks was rejected *)
C3_BlockedByEntity ==
    /\ LastCall({"MovementAction"})
    /\ history.exc = "Impossible"
    /\ <<history.action.dx, history.action.dy>> # <<0, 0>>
    /\ Destination(history.action) \in Cells \ Walls

(* C5: when perform() of an action (Bump, Melee, Movement, Pickup, ItemAction
   of each consumable, TakeStairs) raises Impossible, nothing was mutated:
   the actors (position, hp, AI, inventory, equipment, xp), the items, the
   map and the floor counter are as before the call *)
C5_ImpossibleMutatesNothing ==
    [][history'.exc = "Impossible" =>
          /\ actors' = actors
          /\ items' = items
          /\ game_map' = game_map
          /\ current_floor' = current_floor]_vars

(* a health potion was used at full health, and rejected *)
C5_PotionAtFullHealth ==
    /\ LastCall({"ItemAction"})
    /\ history.action.item = HealthPotion
    /\ history.exc = "Impossible"
    /\ actors[history.action.entity].hp = actors[history.action.entity].max_hp
    /\ InSeq(actors[history.action.entity].inventory, HealthPotion)

Threshold(l) == l.level_up_base + l.current_level * l.level_up_factor

(* C9: add_xp(xp) with xp # 0 and level_up_base # 0 adds exactly xp to
   current_xp, and then requires_level_up is true iff current_xp is strictly
   above level_up_base + current_level * level_up_factor, which is when the
   advance is announced; with xp = 0 or level_up_base = 0 current_xp is
   unchanged *)
C9_AddXp ==
    [][history'.action.type = "add_xp" =>
          LET a == history'.action.entity
              xp == history'.action.dx
          IN IF xp # 0 /\ actors[a].level_up_base # 0
             THEN /\ actors'[a].current_xp = actors[a].current_xp + xp
                  /\ RequiresLevelUp(actors'[a]) <=>
                        actors'[a].current_xp > Threshold(actors'[a])
                  /\ Logged(message_log', "You advance to level", a) =
                        IF actors'[a].current_xp > Threshold(actors'[a]) THEN 1 ELSE 0
             ELSE actors'[a].current_xp = actors[a].current_xp]_vars

(* experience was added that brought current_xp exactly to the threshold,
   and no level-up is required *)
C9_ExactlyAtThreshold ==
    /\ LastCall({"add_xp"})
    /\ history.action.dx # 0
    /\ actors[history.action.entity].level_up_base # 0
    /\ actors[history.action.entity].current_xp = Threshold(actors[history.action.entity])
    /\ ~RequiresLevelUp(actors[history.action.entity])

(* C10: increase_level subtracts from current_xp the threshold computed at
   the old level and adds 1 to current_level, and each of increase_max_hp,
   increase_power and increase_defense does so exactly once *)
C10_IncreaseLevel ==
    [][history'.action.type \in {"increase_level", "increase_max_hp", "increase_power",
                                 "increase_defense"} =>
          LET a == history'.action.entity
          IN /\ actors'[a].current_xp = actors[a].current_xp - Threshold(actors[a])
             /\ actors'[a].current_level = actors[a].current_level + 1]_vars

(* a stat was increased with experience above the threshold, and the rest
   of the experience was kept *)
C10_ExperienceKept ==
    /\ LastCall({"increase_max_hp", "increase_power", "increase_defense"})
    /\ actors[history.action.entity].current_level = 2
    /\ actors[history.action.entity].current_xp > 0

(* The latest event resolved a player action that returned (a turn), or
   one that raised Impossible *)
TurnTaken(h) == "update_fov" \in Range(h.calls)
Rejected(h) == "Impossible" \in Range(h.calls)
PlayerDead(as) == as[Player].ai = NoAI
LevelUpPending(as) == as[Player].current_xp > Threshold(as[Player])

(* C4: when the action of the player raises Impossible, the reason is added
   to the message log, no enemy AI runs, the field of view is not recomputed
   and the active handler stays the same *)
C4_ImpossibleCostsNoTurn ==
    [][Rejected(history') =>
          /\ \E m \in BagToSet(message_log') : m.color = "impossible"
          /\ \A a \in ActorIds : history'.ai_calls[a] = 0
          /\ "handle_enemy_turns" \notin Range(history'.calls)
          /\ "update_fov" \notin Range(history'.calls)
          /\ game_map'.visible = game_map.visible
          /\ handler' = handler]_vars

(* an action was rejected while a handler other than the main one was
   active, with enemies alive on the map *)
C4_RejectedInSubHandler ==
    /\ Rejected(history)
    /\ handler # MainGameEventHandler
    /\ \E a \in Monsters \cap game_map.entities : actors[a].ai # NoAI

(* C6: after a player action that returns without Impossible the next
   handler is GameOver if the player is dead, even with a level-up pending,
   otherwise LevelUp if requires_level_up holds, otherwise the main handler *)
C6_NextHandler ==
    [][TurnTaken(history') =>
          handler' = IF PlayerDead(actors') THEN GameOverEventHandler
                     ELSE IF LevelUpPending(actors') THEN LevelUpEventHandler
                     ELSE MainGameEventHandler]_vars

(* the player died in a turn that left a level-up pending *)
C6_DeadWithLevelUpPending ==
    /\ TurnTaken(history)
    /\ PlayerDead(actors)
    /\ LevelUpPending(actors)
    /\ handler = GameOverEventHandler

(* C7: in a turn that is not rejected the AI of every living actor other
   than the player is invoked exactly once, after the action of the player
   and before the field of view is recomputed, and the AI of the player is
   never invoked; no AI is invoked outside such a turn *)
C7_EnemiesActOncePerTurn ==
    [][/\ history'.ai_calls[Player] = 0
       /\ IF "handle_enemy_turns" \in Range(history'.calls)
          THEN /\ history'.calls = <<"perform", "handle_enemy_turns", "update_fov">>
               /\ \A a \in Monsters :
                     /\ history'.ai_calls[a] <= 1
                     /\ (a \in game_map'.entities /\ actors'[a].ai # NoAI) =>
                           history'.ai_calls[a] = 1
                     /\ actors[a].ai = NoAI => history'.ai_calls[a] = 0
          ELSE \A a \in Monsters : history'.ai_calls[a] = 0]_vars

(* a turn in which a monster acted while the corpse of another lay on the map *)
C7_TurnWithLivingAndDead ==
    /\ TurnTaken(history)
    /\ \E a, b \in Monsters \cap game_map.entities :
          /\ history.ai_calls[a] = 1
          /\ actors[a].ai # NoAI
          /\ actors[b].ai = NoAI
          /\ history.ai_calls[b] = 0

(* C8: a pending level-up blocks input until it is resolved: while the
   player is alive and requires_level_up holds the level-up handler is the
   active one, and no event resolves a player action or runs an enemy turn *)
C8_PendingLevelUpBlocksInput ==
    /\ []((running = "running" /\ ~PlayerDead(actors) /\ LevelUpPending(actors)) =>
             handler = LevelUpEventHandler)
    /\ [][(~PlayerDead(actors) /\ LevelUpPending(actors)) =>
             /\ "perform" \notin Range(history'.calls)
             /\ "handle_enemy_turns" \notin Range(history'.calls)]_vars

(* C11: in every reachable state of the game the player's current_xp is at
   least 0 and current_level at least 1, and no step lowers current_level *)
C11_PlayerLevelAndXp ==
    /\ [](actors[Player].current_xp >= 0 /\ actors[Player].current_level >= 1)
    /\ [][actors'[Player].current_level >= actors[Player].current_level]_vars

(* the player resolved a level-up in the game, and kept playing *)
C11_LevelGained ==
    /\ actors[Player].current_level > 1
    /\ actors[Player].current_xp < 3 * OrcXp + TrollXp
    /\ running = "running"

(* The living actors on a cell of the map *)
LivingAt(cell) ==
    {t \in ActorIds \cap game_map.entities : actors[t].ai # NoAI /\ Position(t) = cell}

(* C12: MeleeAction with a living actor at the destination computes damage =
   attacker.power - defender.defense; with damage > 0 the hp of the defender
   becomes max(0, hp - damage) and the hit is logged, with damage <= 0 the hp
   is unchanged and a no-damage message is logged; with no living actor at
   the destination it raises Impossible *)
C12_MeleeAction ==
    [][history'.action.type = "MeleeAction" =>
          LET call == history'.action
              a == call.entity
              living == LivingAt(Destination(call))
          IN IF living = {}
             THEN history'.exc = "Impossible" /\ actors' = actors
             ELSE /\ history'.exc = "none"
                  /\ \E t \in living :
                        LET damage == Power(World, a) - Defense(World, t)
                        IN IF damage > 0
                           THEN /\ actors'[t].hp = Max(0, actors[t].hp - damage)
                                /\ Logged(message_log', "attacks for hit points.", t) = 1
                                /\ Logged(message_log', "attacks but does no damage.", t) = 0
                           ELSE /\ actors'[t].hp = actors[t].hp
                                /\ Logged(message_log', "attacks but does no damage.", t) = 1
                                /\ Logged(message_log', "attacks for hit points.", t) = 0]_vars

(* an attacker whose power is below the defense of its target attacked, and
   the no-damage message was logged *)
C12_NoDamage ==
    /\ LastCall({"MeleeAction"})
    /\ history.exc = "none"
    /\ \E t \in ActorIds :
          /\ Logged(message_log, "attacks but does no damage.", t) = 1
          /\ Power(World, history.action.entity) < Defense(World, t)

(* The items of the map that lie on the tile of an actor *)
ItemsUnder(a) ==
    {i \in ItemIds \cap game_map.entities : <<items[i].x, items[i].y>> = Position(a)}

(* C13: PickupAction by an actor whose inventory holds capacity-many items,
   with an item on the tile of the actor, raises Impossible and leaves the
   inventory and the entity set of the map as they were; with no item on the
   tile it raises Impossible as well *)
C13_PickupRejected ==
    [][history'.action.type = "PickupAction" =>
          LET a == history'.action.entity
          IN IF ItemsUnder(a) = {}
             THEN /\ history'.exc = "Impossible"
                  /\ history'.reason = "There is nothing to pick up."
                  /\ actors'[a].inventory = actors[a].inventory
                  /\ game_map'.entities = game_map.entities
             ELSE IF Len(actors[a].inventory) >= actors[a].capacity
             THEN /\ history'.exc = "Impossible"
                  /\ history'.reason = "Your inventory is full"
                  /\ actors'[a].inventory = actors[a].inventory
                  /\ game_map'.entities = game_map.entities
                  /\ items' = items
             ELSE history'.exc = "none"]_vars

(* the player, holding as many items as the inventory takes, tried to pick
   up an item that lies on the tile, and the item stayed on the ground *)
C13_FullInventory ==
    /\ LastCall({"PickupAction"})
    /\ history.action.entity = Player
    /\ history.exc = "Impossible"
    /\ Len(actors[Player].inventory) = PlayerCapacity
    /\ ItemsUnder(Player) # {}

(* C14: after any sequence of pickup, drop and item-use actions no
   inventory holds more items than its capacity *)
C14_InventoryWithinCapacity ==
    \A a \in ActorIds : Len(actors[a].inventory) <= actors[a].capacity

(* a pickup that succeeded filled the inventory of the player to its capacity *)
C14_FilledToCapacity ==
    /\ LastCall({"PickupAction"})
    /\ history.action.entity = Player
    /\ history.exc = "none"
    /\ Len(actors[Player].inventory) = PlayerCapacity

(* C15: choosing an item in the drop menu and resolving the DropItem action
   removes the item from the inventory of the player and places it on the
   map at the tile of the player (in the entity set, owned by the map), and
   the turn is consumed *)
C15_DropFromMenu ==
    [][history'.action.type = "DropItem" =>
          LET i == history'.action.item
          IN /\ InSeq(actors[Player].inventory, i)
             /\ ~InSeq(actors'[Player].inventory, i)
             /\ i \in game_map'.entities
             /\ items'[i].parent = MapParent
             /\ <<items'[i].x, items'[i].y>> = <<actors[Player].x, actors[Player].y>>
             /\ TurnTaken(history')
             /\ running' = "running"]_vars

(* An item has exactly one owner: the map, or one inventory that holds it once *)
Holders(i) == {a \in ActorIds : InSeq(actors[a].inventory, i)}
OwnedByMap(i) ==
    /\ i \in game_map.entities
    /\ items[i].parent = MapParent
    /\ Holders(i) = {}
OwnedByInventory(i) ==
    /\ i \notin game_map.entities
    /\ Holders(i) = {items[i].parent}
    /\ Cardinality({k \in 1 .. Len(actors[items[i].parent].inventory) :
                       actors[items[i].parent].inventory[k] = i}) = 1
OneOwner(i) == OwnedByMap(i) \/ OwnedByInventory(i)

(* C16: over any sequence of pickup, drop, item-use and stairs actions an
   item that has one owner (the entity set of the map, or the list of one
   inventory, with its parent naming that owner) keeps having exactly one,
   unless the step consumes it or the stairs leave it on the floor behind *)
C16_OneOwner ==
    [][\A i \in ItemIds :
          OneOwner(i) =>
             \/ OneOwner(i)'
             \/ /\ history'.action.type = "ItemAction"
                /\ history'.action.item = i
                /\ history'.exc = "none"
             \/ /\ history'.action.type = "TakeStairsAction"
                /\ history'.exc = "none"
                /\ OwnedByMap(i)]_vars

(* The slot of an item: weapon for a WEAPON equippable, armor otherwise *)
SlotContent(as, a, i) == IF i \in Weapons THEN as[a].weapon ELSE as[a].armor

(* C17: EquipAction on an item that is not in its slot puts it there; on the
   item that occupies its slot it empties the slot *)
C17_EquipToggles ==
    [][history'.action.type = "EquipAction" =>
          LET a == history'.action.entity
              i == history'.action.item
          IN /\ history'.exc = "none"
             /\ SlotContent(actors', a, i) =
                   IF SlotContent(actors, a, i) = i THEN NoItem ELSE i]_vars

(* C19: activating the confusion scroll carried by its user raises
   Impossible, with the target's AI and the scroll untouched, when the target
   tile is not visible, else when no living actor stands on it, else when
   that actor is the user; otherwise the actor on the tile gets a
   ConfusedEnemy that stores its previous AI and the scroll's number of
   turns, and the scroll leaves the user's inventory *)
C19_ConfusionScroll ==
    [][(history'.action.type = "ItemAction" /\ history'.action.item = ConfusionScroll
        /\ InSeq(actors[history'.action.entity].inventory, ConfusionScroll)) =>
          LET user == history'.action.entity
              xy == history'.action.target_xy
              Refused(reason) ==
                  /\ history'.exc = "Impossible"
                  /\ history'.reason = reason
                  /\ actors' = actors
                  /\ items' = items
          IN IF xy \notin game_map.visible
             THEN Refused("You cannot target an area you cannot see.")
             ELSE IF LivingAt(xy) = {}
             THEN Refused("You must select an enemy to target.")
             ELSE IF LivingAt(xy) = {user}
             THEN Refused("You cannot confuse yourself!")
             ELSE /\ history'.exc = "none"
                  /\ \E t \in LivingAt(xy) \ {user} :
                        /\ actors'[t].ai = ConfusedEnemy(actors[t].ai, ConfusionTurns)
                        /\ \A o \in ActorIds \ {t, user} : actors'[o] = actors[o]
                  /\ actors'[user].inventory =
                        RemoveFirst(actors[user].inventory, ConfusionScroll)]_vars

(* the scroll was read at an orc in sight: the orc is confused for the
   scroll's number of turns, its hostile AI is stored, and the scroll is gone *)
C19_OrcConfused ==
    /\ LastCall({"ItemAction"})
    /\ history.action.item = ConfusionScroll
    /\ history.exc = "none"
    /\ \E t \in ActorIds \ {Player} :
          /\ actors[t].ai.type = "Confused"
          /\ actors[t].ai.turns_remaining = ConfusionTurns
          /\ actors[t].ai.previous_ai.type = "Hostile"
    /\ ~InSeq(actors[Player].inventory, ConfusionScroll)

(* C20: using a healing potion with hp below max_hp sets hp to the lesser of
   max_hp and hp + amount and removes the potion from the user's inventory;
   with hp at max_hp it raises Impossible and the potion stays *)
C20_HealingPotion ==
    [][(history'.action.type = "ItemAction" /\ history'.action.item \in Potions
        /\ InSeq(actors[history'.action.entity].inventory, history'.action.item)) =>
          LET user == history'.action.entity
              potion == history'.action.item
          IN IF actors[user].hp < actors[user].max_hp
             THEN /\ history'.exc = "none"
                  /\ actors'[user].hp = Min(actors[user].max_hp, actors[user].hp + HealAmount)
                  /\ actors'[user].inventory = RemoveFirst(actors[user].inventory, potion)
             ELSE /\ actors[user].hp = actors[user].max_hp
                  /\ history'.exc = "Impossible"
                  /\ actors'[user].hp = actors[user].hp
                  /\ actors'[user].inventory = actors[user].inventory]_vars

(* a potion was drunk one point short of full health: hp rose by less than
   the amount of the potion, to max_hp, and the potion is gone *)
C20_HealCapped ==
    /\ LastCall({"ItemAction"})
    /\ history.action.item \in Potions
    /\ history.exc = "none"
    /\ actors[Player].hp = actors[Player].max_hp
    /\ \E e \in BagToSet(message_log) : e.color = "health_recovered" /\ e.n < HealAmount
    /\ ~InSeq(actors[Player].inventory, history.action.item)

MovedBy(a, d) ==
    /\ actors'[a].x = actors[a].x + d[1]
    /\ actors'[a].y = actors[a].y + d[2]
Attacked(a) ==
    \E e \in BagToSet(message_log') :
        /\ e.color = "enemy_atk"
        /\ \E d \in Directions : <<actors[a].x + d[1], actors[a].y + d[2]>> = Position(e.who)

(* C18: a ConfusedEnemy created with turns_remaining = n bumps in one of
   the 8 directions on each of its next n invocations, the countdown dropping
   by one each time, also when the bump is rejected as Impossible; invocation
   n + 1 restores the previous AI, logs the recovery and neither moves nor
   attacks *)
C18_ConfusedCountdown ==
    /\ [](\A a \in ConfusedOrcs :
             actors[a].ai # NoAI =>
                IF history.ai_calls[a] <= TurnsGiven(a)
                THEN actors[a].ai = ConfusedEnemy(HostileEnemy(<<>>),
                                                  TurnsGiven(a) - history.ai_calls[a])
                ELSE actors[a].ai.type = "Hostile")
    /\ [][(history'.action.type = "AIPerform"
           /\ history.ai_calls[history'.action.entity] <= TurnsGiven(history'.action.entity)) =>
             LET a == history'.action.entity
             IN /\ history'.ai_calls[a] = history.ai_calls[a] + 1
                /\ IF history.ai_calls[a] < TurnsGiven(a)
                   THEN /\ actors'[a].ai.turns_remaining = actors[a].ai.turns_remaining - 1
                        /\ \/ /\ history'.exc = "none"
                              /\ \E d \in Directions : MovedBy(a, d)
                           \/ /\ history'.exc = "none"
                              /\ MovedBy(a, <<0, 0>>)
                              /\ Attacked(a)
                           \/ /\ history'.exc = "Impossible"
                              /\ MovedBy(a, <<0, 0>>)
                              /\ [actors' EXCEPT ![a].ai = actors[a].ai] = actors
                   ELSE /\ history'.exc = "none"
                        /\ actors' = [actors EXCEPT ![a].ai = HostileEnemy(<<>>)]
                        /\ game_map' = game_map
                        /\ \E e \in BagToSet(message_log') :
                              e.text = "is no longer confused." /\ e.who = a]_vars

(* the orc confused for 2 turns was invoked a third time: it is hostile
   again and the recovery was logged *)
C18_Recovered ==
    /\ LastCall({"AIPerform"})
    /\ history.action.entity = "orc3"
    /\ history.ai_calls["orc3"] = TurnsGiven("orc3") + 1
    /\ actors["orc3"].ai = HostileEnemy(<<>>)
    /\ \E e \in BagToSet(message_log) : e.text = "is no longer confused." /\ e.who = "orc3"

Living == {t \in ActorIds \cap game_map.entities : actors[t].ai # NoAI}
SquaredDistance(a, cell) ==
    (cell[1] - actors[a].x) * (cell[1] - actors[a].x)
       + (cell[2] - actors[a].y) * (cell[2] - actors[a].y)
(* The actors that the latest event logged as struck by lightning *)
Struck(log) == {e.who : e \in {m \in BagToSet(log) : m.text = "A lighting bolt strikes with a loud thunder!"}}
InReach(user, reach2) ==
    {t \in Living \ {user} :
        /\ Position(t) \in game_map.visible
        /\ SquaredDistance(user, Position(t)) < reach2}

(* C21: the lightning scroll strikes only a living actor other than its
   user on a visible tile at a distance strictly below max_range, one at the
   least distance among these; with no such actor it raises Impossible and
   the scroll stays in the inventory *)
C21_LightningWithinRange ==
    [][(history'.action.type = "ItemAction" /\ history'.action.item = LightningScroll
        /\ InSeq(actors[history'.action.entity].inventory, LightningScroll)) =>
          LET user == history'.action.entity
              near == InReach(user, LightningRange * LightningRange)
          IN IF near = {}
             THEN /\ Struck(message_log') = {}
                  /\ InSeq(actors'[user].inventory, LightningScroll)
             ELSE /\ Struck(message_log') # {}
                  /\ \A t \in Struck(message_log') :
                        /\ t \in near
                        /\ \A o \in near : SquaredDistance(user, Position(t))
                                              <= SquaredDistance(user, Position(o))
                  /\ ~InSeq(actors'[user].inventory, LightningScroll)]_vars

InRadius(cell) == {t \in Living : SquaredDistance(t, cell) <= FireballRadius * FireballRadius}

(* C22: a fireball aimed at a visible tile takes its damage once from every
   living actor, its user included, at a distance of at most the radius from
   the tile, and from no other actor, and the scroll leaves the inventory;
   aimed at a tile that is not visible it raises Impossible with no damage
   done; aimed at a visible tile with no living actor in the radius it
   raises Impossible and the scroll stays *)
C22_Fireball ==
    [][(history'.action.type = "ItemAction" /\ history'.action.item = FireballScroll
        /\ InSeq(actors[history'.action.entity].inventory, FireballScroll)) =>
          LET user == history'.action.entity
              xy == history'.action.target_xy
          IN IF xy \notin game_map.visible
             THEN /\ history'.exc = "Impossible"
                  /\ history'.reason = "You cannot target an area you cannot see."
                  /\ actors' = actors
             ELSE IF InRadius(xy) = {}
             THEN /\ history'.exc = "Impossible"
                  /\ actors' = actors
                  /\ InSeq(actors'[user].inventory, FireballScroll)
             ELSE /\ history'.exc = "none"
                  /\ \A t \in ActorIds :
                        /\ actors'[t].hp =
                              IF t \in InRadius(xy)
                              THEN Max(0, actors[t].hp - FireballDamage)
                              ELSE actors[t].hp
                        /\ Logged(message_log', "is engulfed in a fiery explosion!", t) =
                              IF t \in InRadius(xy) THEN 1 ELSE 0
                  /\ actors'[user].inventory =
                        RemoveFirst(actors[user].inventory, FireballScroll)]_vars

(* the fireball burnt its user and some of the orcs around, and left an
   orc that stands farther from the target tile unhurt *)
C22_SomeBurnt ==
    /\ LastCall({"ItemAction"})
    /\ history.action.item = FireballScroll
    /\ history.exc = "none"
    /\ Logged(message_log, "is engulfed in a fiery explosion!", Player) = 1
    /\ \E t \in Living \ {Player} :
          /\ Logged(message_log, "is engulfed in a fiery explosion!", t) = 0
          /\ actors[t].hp = OrcHp
    /\ \E t \in Orcs : Logged(message_log, "is engulfed in a fiery explosion!", t) = 1

Chebyshev(a, b) == Max(Abs(actors[b].x - actors[a].x), Abs(actors[b].y - actors[a].y))
Adjacent(c, q) == <<q[1] - c[1], q[2] - c[2]>> \in Directions
(* p leads from a neighbour of the cell from, step by step over walkable
   cells, to the cell to *)
IsRoute(from, p, to) ==
    /\ p # <<>>
    /\ Adjacent(from, p[1])
    /\ \A k \in 1 .. Len(p) - 1 : Adjacent(p[k], p[k + 1])
    /\ \A k \in 1 .. Len(p) : Walkable(p[k][1], p[k][2])
    /\ p[Len(p)] = to
(* the actor a performed a MovementAction toward the cell head and was left
   with the path rest: it stands on head, or the move was rejected *)
MovedToward(a, head, rest) ==
    \/ /\ history'.exc = "none"
       /\ actors' = [actors EXCEPT ![a].x = head[1], ![a].y = head[2], ![a].ai.path = rest]
    \/ /\ history'.exc = "Impossible"
       /\ actors' = [actors EXCEPT ![a].ai.path = rest]
Waited(a) ==
    /\ history'.exc = "none"
    /\ actors' = actors
    /\ message_log' = EmptyBag
HostileCalled == history'.action.type = "AIPerform" /\ actors[history'.action.entity].ai.type = "Hostile"

(* C23: HostileEnemy.perform, on a visible tile at Chebyshev distance at
   most 1 from the player, attacks the player and does nothing else; on a
   visible tile farther away it replaces its path by a fresh path to the
   tile of the player; then with a path that is not empty it removes the
   first step and performs a MovementAction toward it, and with an empty path
   it waits *)
C23_HostilePerform ==
    [][HostileCalled =>
          LET a == history'.action.entity
              path == actors[a].ai.path
          IN IF Position(a) \in game_map.visible /\ Chebyshev(a, Player) <= 1
             THEN /\ history'.exc = "none"
                  /\ actors' = [actors EXCEPT ![Player].hp = @ - (OrcPower - PlayerDefense)]
                  /\ Logged(message_log', "attacks for hit points.", Player) = 1
             ELSE IF Position(a) \in game_map.visible
             THEN \E head \in Cells :
                     /\ IsRoute(Position(a), <<head>> \o actors'[a].ai.path, Position(Player))
                     /\ MovedToward(a, head, actors'[a].ai.path)
             ELSE IF path # <<>>
             THEN MovedToward(a, Head(path), Tail(path))
             ELSE Waited(a)]_vars

(* an orc in sight, three cells from the player, with a cached path that led
   away from the player, moved one step nearer and holds a path that ends at
   the tile of the player *)
C23_FreshPath ==
    /\ LastCall({"AIPerform"})
    /\ history.action.entity = "orc3"
    /\ history.ai_calls["orc3"] = 1
    /\ history.exc = "none"
    /\ actors["orc3"].x = 5
    /\ actors["orc3"].ai.path # <<>>
    /\ actors["orc3"].ai.path[Len(actors["orc3"].ai.path)] = Position(Player)

(* C24: a HostileEnemy on a tile that is not visible does not compute a
   path: its turn removes exactly the first step of the cached path and
   moves toward it, and with the path exhausted it waits where it stands *)
C24_OutOfSight ==
    [][(HostileCalled /\ Position(history'.action.entity) \notin game_map.visible) =>
          LET a == history'.action.entity
              path == actors[a].ai.path
          IN /\ actors'[a].ai.path = (IF path = <<>> THEN <<>> ELSE Tail(path))
             /\ \A o \in ActorIds \ {a} : actors'[o] = actors[o]
             /\ IF path = <<>>
                THEN <<actors'[a].x, actors'[a].y>> = Position(a) /\ history'.exc = "none"
                ELSE \/ <<actors'[a].x, actors'[a].y>> = Head(path) /\ history'.exc = "none"
                     \/ <<actors'[a].x, actors'[a].y>> = Position(a) /\ history'.exc = "Impossible"]_vars

(* the orc out of sight walked the two steps of its cached path, out of
   sight all along, and on its third turn waited on the last cell of the path *)
C24_WaitsOutOfSight ==
    /\ LastCall({"AIPerform"})
    /\ history.action.entity = "orc1"
    /\ history.ai_calls["orc1"] = 3
    /\ Position("orc1") = <<1, 2>>
    /\ Position("orc1") \notin game_map.visible
    /\ actors["orc1"].ai.path = <<>>

(* C25: TakeStairsAction by an actor that does not stand on the downstairs
   location raises Impossible and leaves the map and the floor counter as
   they were; by an actor on the downstairs location it adds exactly 1 to
   the floor counter and puts a newly generated map in place of the map *)
C25_TakeStairs ==
    [][history'.action.type = "TakeStairsAction" =>
          LET a == history'.action.entity
          IN IF Position(a) = DownstairsLocation
             THEN /\ history'.exc = "none"
                  /\ current_floor' = current_floor + 1
                  /\ Player \in game_map'.entities
                  /\ game_map'.entities \subseteq {Player, Troll}
                  /\ game_map'.entities \cap ItemIds = {}
                  /\ game_map'.visible = {}
             ELSE /\ history'.exc = "Impossible"
                  /\ history'.reason = "There are no stairs here."
                  /\ game_map' = game_map
                  /\ current_floor' = current_floor
                  /\ actors' = actors]_vars

(* the player took the stairs from the downstairs location and stands at
   the start of the second floor *)
C25_Descended ==
    /\ LastCall({"TakeStairsAction"})
    /\ history.exc = "none"
    /\ current_floor = 2
    /\ Position(Player) = PlayerStart

Attacks(log) == {m \in BagToSet(log) : m.color \in {"player_atk", "enemy_atk"}}
(* the step left what this outcome of perform() leaves *)
LeftBy(o) ==
    /\ actors' = o.w.actors
    /\ items' = o.w.items
    /\ game_map'.entities = o.w.entities
    /\ message_log' = o.w.log
    /\ history'.exc = o.exc
    /\ history'.reason = o.reason

(* C26: BumpAction performs a MeleeAction when a living actor stands on the
   destination and a MovementAction otherwise, a corpse or an item on the
   destination included, and its outcome, Impossible too, is the outcome of
   the action it dispatches to *)
C26_BumpDispatch ==
    [][history'.action.type = "BumpAction" =>
          LET a == history'.action.entity
              dx == history'.action.dx
              dy == history'.action.dy
              dest == <<actors[a].x + dx, actors[a].y + dy>>
          IN IF LivingAt(dest) # {}
             THEN /\ \E o \in MeleeAction(World, a, dx, dy) : LeftBy(o)
                  /\ history'.exc = "none"
                  /\ \E m \in Attacks(message_log') : m.who \in LivingAt(dest)
                  /\ <<actors'[a].x, actors'[a].y>> = Position(a)
             ELSE /\ \E o \in MovementAction(World, a, dx, dy) : LeftBy(o)
                  /\ Attacks(message_log') = {}
                  /\ \/ history'.exc = "none" /\ <<actors'[a].x, actors'[a].y>> = dest
                     \/ /\ history'.exc = "Impossible"
                        /\ history'.reason = "The way is blocked"
                        /\ actors' = actors]_vars

(* the player bumped into the cell where a dead orc lies and stands on it,
   with no attack made *)
C26_OverCorpse ==
    /\ LastCall({"BumpAction"})
    /\ history.action.entity = Player
    /\ history.exc = "none"
    /\ Attacks(message_log) = {}
    /\ \E t \in Orcs \cap game_map.entities :
          actors[t].ai = NoAI /\ Position(t) = Position(Player)

(* the step is the main loop handling a wait key, pressed without shift *)
WaitKeyPressed == \E k \in WAIT_KEYS : MainLoop(KeyDownEvent(k, FALSE))

(* C27: a wait key pressed in the main game state yields a WaitAction whose
   resolution changes nothing in the world, and the turn is consumed: the
   enemy turns and the update of the field of view run after it *)
C27_WaitConsumesTurn ==
    [][(handler = MainGameEventHandler /\ WaitKeyPressed) =>
          /\ history'.action.type = "WaitAction"
          /\ history'.exc = "none"
          /\ history'.calls = <<"perform", "handle_enemy_turns", "update_fov">>
          /\ items' = items
          /\ current_floor' = current_floor
          /\ game_map'.entities = game_map.entities
          /\ <<actors'[Player].x, actors'[Player].y>> = Position(Player)
          /\ actors'[Player].inventory = actors[Player].inventory
          /\ running' = "running"]_vars

(* The entities of the map with blocks_movement set that stand on the cell *)
BlockersOn(cell) ==
    {e \in ActorIds \cap game_map.entities :
        actors[e].blocks_movement /\ Position(e) = cell}

(* C28: in every reachable state no two entities with blocks_movement set
   stand on the same cell of the map *)
C28_OneBlockerPerCell ==
    \A e1, e2 \in ActorIds \cap game_map.entities :
        (e1 # e2 /\ actors[e1].blocks_movement /\ actors[e2].blocks_movement)
           => Position(e1) # Position(e2)

(* the player stands on the cell of an orc it killed, every walkable cell
   next to the player holds a living orc, and one more living orc, with no
   free cell to step on, stands two cells away *)
C28_Crowded ==
    /\ actors[Player].ai # NoAI
    /\ \E t \in Orcs \cap game_map.entities :
          actors[t].ai = NoAI /\ Position(t) = Position(Player)
    /\ \A c \in Cells :
          (Adjacent(Position(Player), c) /\ Walkable(c[1], c[2])) => BlockersOn(c) # {}
    /\ \E t \in Orcs \cap game_map.entities :
          actors[t].ai # NoAI /\ Chebyshev(t, Player) = 2

(* C29: in every reachable state every entity of the map, actor or item,
   has coordinates with 0 <= x < width and 0 <= y < height *)
C29_EntitiesInBounds ==
    /\ \A a \in ActorIds \cap game_map.entities :
          /\ 0 <= actors[a].x /\ actors[a].x < MapWidth
          /\ 0 <= actors[a].y /\ actors[a].y < MapHeight
    /\ \A i \in ItemIds \cap game_map.entities :
          /\ 0 <= items[i].x /\ items[i].x < MapWidth
          /\ 0 <= items[i].y /\ items[i].y < MapHeight

(* the player, in the first column of the map, bumped west and was refused *)
C29_RefusedAtTheEdge ==
    /\ LastCall({"BumpAction"})
    /\ history.action.dx = -1
    /\ Rejected(history)
    /\ actors[Player].x = 0

(* C30 as stated: every actor has blocks_movement set in every reachable
   state *)
C30_ActorsAlwaysBlock ==
    \A a \in ActorIds \cap game_map.entities : actors[a].blocks_movement

(* C30: every actor has blocks_movement set from its creation until it
   dies, and not set from then on: an actor blocks exactly while it has an AI *)
C30_LivingActorsBlock ==
    \A a \in ActorIds : actors[a].blocks_movement = (actors[a].ai # NoAI)

(* an orc of the map died and its corpse does not block, next to the living
   player, who does *)
C30_CorpseDoesNotBlock ==
    /\ actors[Player].blocks_movement
    /\ \E t \in Orcs \cap game_map.entities :
          /\ history.die_calls[t] = 1
          /\ ~actors[t].blocks_movement
          /\ Chebyshev(t, Player) = 1

(* the flood of the walkable cells from a set of cells: the cells that can be
   reached from it over walkable cells, a step being one of the 8 directions *)
RECURSIVE Flood(_)
Flood(reached) ==
    LET next == reached \cup {c \in Cells : Walkable(c[1], c[2]) /\ \E q \in reached : Adjacent(q, c)}
    IN IF next = reached THEN reached ELSE Flood(next)
PathCalled == history.action.type = "GetPathTo"

(* C31: get_path_to returns, for a goal that can be reached from the cell of
   the actor over walkable cells, a sequence of walkable cells without the
   start cell, whose first cell is 8-adjacent to the start, whose consecutive
   cells are 8-adjacent and whose last cell is the goal, whatever blocking
   entities stand on its cells; it returns the empty sequence for a goal that
   cannot be reached (and for the start cell itself) *)
C31_GetPathTo ==
    PathCalled =>
        LET start == Position(history.action.entity)
            goal == history.action.target_xy
            path == history.path
        IN IF goal # start /\ goal \in Flood({start})
           THEN /\ IsRoute(start, path, goal)
                /\ start \notin Range(path)
           ELSE path = <<>>

(* the orc between the walls, with a blocking entity on each of the three
   cells next to it, got a path to a cell at the far end whose first step is
   a cell that another orc or the player holds *)
C31_ThroughTheCrowd ==
    /\ PathCalled
    /\ history.action.entity = "orc3"
    /\ Position("orc3") = <<0, 1>>
    /\ history.action.target_xy = <<MapWidth - 1, 1>>
    /\ history.path # <<>>
    /\ BlockingEntitiesAt(World, history.path[1][1], history.path[1][2]) # {}

(* a wall cannot be reached: the path to it is empty *)
C31_NoPathToWall ==
    /\ PathCalled
    /\ history.action.target_xy \in Walls
    /\ history.path = <<>>

(* the step is the main loop handling a window-quit event, the Escape key *)
QuitRequested == MainLoop(QuitEvent)
EscapePressed == MainLoop(KeyDownEvent("K_ESCAPE", FALSE))

(* C32: in the GameOver handler a window-quit event and the Escape key both
   end the program with QuitWithoutSaving; in every other handler a
   window-quit event, and in the main game handler the Escape key, end it
   with a SystemExit that is not QuitWithoutSaving; none of them changes the
   world; and an action that is rejected as Impossible leaves the program
   running, so that the program never ends with Impossible *)
C32_QuitWithoutSaving ==
    [][/\ (handler = GameOverEventHandler /\ (QuitRequested \/ EscapePressed)) =>
              running' = "QuitWithoutSaving" /\ actors' = actors /\ items' = items
       /\ (handler # GameOverEventHandler /\ QuitRequested) =>
              running' = "SystemExit" /\ actors' = actors /\ items' = items
       /\ (handler = MainGameEventHandler /\ EscapePressed) =>
              running' = "SystemExit" /\ actors' = actors /\ items' = items
       /\ Rejected(history') => running' = "running"
       /\ running' # "Impossible"]_vars

(* the player died, and the finished game was left by a quit request *)
C32_QuitAfterDeath ==
    /\ handler = GameOverEventHandler
    /\ PlayerDead(actors)
    /\ running = "QuitWithoutSaving"

(* C33: while the GameOver handler is active it stays the active handler
   after every event; an event that is not a quit request (the program keeps
   running) resolves no action, runs no enemy turn and no update of the field
   of view, and changes no actor, no item, nothing of the map and not the
   floor *)
C33_GameOverIsTerminal ==
    [][handler = GameOverEventHandler =>
          /\ handler' = GameOverEventHandler
          /\ running' = "running" =>
                /\ history'.action = NoAction
                /\ history'.calls = <<>>
                /\ actors' = actors
                /\ items' = items
                /\ game_map' = game_map
                /\ current_floor' = current_floor]_vars

(* the player is dead, and the latest event, handled by the GameOver
   handler, resolved nothing and left the program running *)
C33_IgnoredAfterDeath ==
    /\ handler = GameOverEventHandler
    /\ PlayerDead(actors)
    /\ running = "running"
    /\ history.calls = <<>>
    /\ events >= 2

(* C34: an ItemAction performed with an item that has no Consumable
   capability is rejected with Impossible, and changes nothing *)
C34_NoSilentNoOp ==
    [][(history'.action.type = "ItemAction" /\ ~Consumable(history'.action.item)) =>
          /\ history'.exc = "Impossible"
          /\ actors' = actors
          /\ items' = items]_vars

(* C35: an EquipAction of an item whose slot holds a different item puts the
   item in the slot in place of the occupant, and the power and the defense
   of the actor are then its base values plus the bonuses of the items in the
   weapon slot and in the armor slot *)
C35_EquipReplaces ==
    [][(/\ history'.action.type = "EquipAction"
        /\ SlotContent(actors, history'.action.entity, history'.action.item)
              \notin {NoItem, history'.action.item}) =>
          LET a == history'.action.entity
              i == history'.action.item
              after == [World EXCEPT !.actors = actors']
          IN /\ history'.exc = "none"
             /\ SlotContent(actors', a, i) = i
             /\ Power(after, a) =
                   actors'[a].base_power + SlotPowerBonus(actors'[a].weapon)
                                         + SlotPowerBonus(actors'[a].armor)
             /\ Defense(after, a) =
                   actors'[a].base_defense + SlotDefenseBonus(actors'[a].weapon)
                                           + SlotDefenseBonus(actors'[a].armor)]_vars

(* C36: a call of HostileEnemy.perform changes the position of its actor by
   at most one tile in each axis, also when an earlier step of its cached
   path was rejected while the actor was out of view *)
C36_OneTilePerTurn ==
    [][HostileCalled =>
          LET a == history'.action.entity
          IN /\ Abs(actors'[a].x - actors[a].x) <= 1
             /\ Abs(actors'[a].y - actors[a].y) <= 1]_vars

(* C37: in every reachable state an actor has an AI exactly when its hp is
   above 0, and an actor without AI has hp 0 and does not block movement; an
   actor that is dead stays as it is: no later event changes its hp or gives
   it an AI, and no message of a later event (an attack, a lightning bolt, a
   fireball, a confusion) names it as a target *)
C37_AliveIffHp ==
    /\ [](\A a \in ActorIds :
             /\ (actors[a].ai # NoAI) <=> (actors[a].hp > 0)
             /\ actors[a].ai = NoAI => actors[a].hp = 0 /\ ~actors[a].blocks_movement)
    /\ [][\A a \in ActorIds :
             actors[a].ai = NoAI =>
                /\ actors'[a].hp = 0
                /\ actors'[a].ai = NoAI
                /\ \A m \in BagToSet(message_log') : m.who # a]_vars

(* an orc died in an earlier event, and in the latest event the player took a
   turn next to or on its corpse, with living orcs around that acted *)
C37_TurnBesideCorpse ==
    /\ TurnTaken(history)
    /\ actors[Player].ai # NoAI
    /\ \E t \in Orcs \cap game_map.entities :
          /\ actors[t].ai = NoAI
          /\ actors[t].hp = 0
          /\ Logged(message_log, DeathMessage(t), t) = 0
          /\ Chebyshev(t, Player) <= 1
    /\ \E t \in Orcs \cap game_map.entities :
          actors[t].ai # NoAI /\ history.ai_calls[t] = 1

(* the actors whose die() the step called, and the experience they give *)
DiedInStep == {a \in ActorIds : history'.die_calls[a] > history.die_calls[a]}
RECURSIVE XpGiven(_)
XpGiven(S) ==
    IF S = {} THEN 0
    ELSE LET a == CHOOSE a \in S : TRUE IN actors[a].xp_given + XpGiven(S \ {a})

(* C38: a step in which actors die, whoever killed them, calls die() once
   for each of them and raises the current_xp of the player by the sum of
   their xp_given, which is 0 for the player itself; a step in which nobody
   dies and no level is gained leaves current_xp as it is; so each death of a
   monster has awarded its xp_given exactly once, and the death of the player
   nothing *)
C38_XpOnEveryDeath ==
    /\ [][/\ \A a \in DiedInStep : history'.die_calls[a] = history.die_calls[a] + 1
          /\ actors'[Player].current_level = actors[Player].current_level =>
                actors'[Player].current_xp = actors[Player].current_xp + XpGiven(DiedInStep)]_vars
    /\ [](\A a \in ActorIds :
             history.xp_awarded[a] =
                IF history.die_calls[a] = 1 /\ a # Player THEN actors[a].xp_given ELSE 0)

(* a confused orc killed the wounded orc next to it, and the player, who did
   nothing, has the experience of the kill *)
C38_KilledByConfusedOrc ==
    /\ LastCall({"AIPerform"})
    /\ history.action.entity = "orc2"
    /\ Logged(message_log, DeathMessage("orc1"), "orc1") = 1
    /\ actors["orc1"].ai = NoAI
    /\ actors[Player].current_xp = OrcXp
    /\ Logged(message_log, "You gain experience points.", Player) = 1

(* C39: a confused actor whose turns keep coming gets back the AI it had
   before it was first confused, unless it dies: also when it was confused
   again while it was confused, where the wrappers unwind one after the other *)
C39_ConfusionEnds ==
    \A a \in DazedOrcs :
        (actors[a].ai.type = "Confused") ~> (actors[a].ai \in {HostileEnemy(<<>>), NoAI})

(* the orc was confused again while it was confused, and the outer wrapper
   has just unwound: the recovery is logged and the AI of the orc is the
   inner wrapper, with the turns it had left *)
C39_OuterUnwound ==
    /\ LastCall({"AIPerform"})
    /\ Logged(message_log, "is no longer confused.", "orc1") = 1
    /\ actors["orc1"].ai.type = "Confused"
    /\ actors["orc1"].ai.previous_ai = HostileEnemy(<<>>)
    /\ ~InSeq(actors[Player].inventory, ConfusionScroll)

(* The options of the level-up menu, and what a level-up may change of the
   player *)
StatKeys == {"K_a", "K_b", "K_c"}
StatChosen(k) == MainLoop(KeyDownEvent(k, FALSE))
Progress(a) ==
    [current_level |-> a.current_level, current_xp |-> a.current_xp, max_hp |-> a.max_hp,
     hp |-> a.hp, base_power |-> a.base_power, base_defense |-> a.base_defense]
StatIncrease(a, k) ==
    CASE k = "K_a" -> [a EXCEPT !.max_hp = @ + LevelUpHpBonus, !.hp = @ + LevelUpHpBonus]
      [] k = "K_b" -> [a EXCEPT !.base_power = @ + 1]
      [] k = "K_c" -> [a EXCEPT !.base_defense = @ + 1]

(* C40: while the LevelUp handler is active, an event that is not one of the
   keys a, b, c (any other key, a mouse click, a mouse motion) leaves it the
   active handler and the level, xp and stats of the player unchanged; each
   of a, b, c applies exactly its one stat increase (+20 max_hp and hp, +1
   base_power, +1 base_defense), adds exactly 1 to current_level, and
   returns to the main handler with no action resolved and no enemy turn *)
C40_LevelUpHandler ==
    [][handler = LevelUpEventHandler =>
          /\ (~ \E k \in StatKeys : StatChosen(k)) =>
                /\ handler' = LevelUpEventHandler
                /\ Progress(actors'[Player]) = Progress(actors[Player])
          /\ \A k \in StatKeys : StatChosen(k) =>
                /\ handler' = MainGameEventHandler
                /\ running' = "running"
                /\ actors'[Player].current_level = actors[Player].current_level + 1
                /\ [Progress(actors'[Player]) EXCEPT !.current_level = 0, !.current_xp = 0]
                     = [Progress(StatIncrease(actors[Player], k))
                          EXCEPT !.current_level = 0, !.current_xp = 0]
                /\ \A a \in ActorIds \ {Player} : actors'[a] = actors[a]
                /\ history'.action = NoAction
                /\ history'.calls = <<>>
                /\ \A a \in ActorIds : history'.ai_calls[a] = 0]_vars

(* strength was chosen in the level-up menu: the player is back in the main
   handler at level 2 with one more point of power, and the event resolved
   no action *)
C40_StrengthChosen ==
    /\ handler = MainGameEventHandler
    /\ running = "running"
    /\ Logged(message_log, "Your feel stronger!", Player) = 1
    /\ actors[Player].current_level = 2
    /\ actors[Player].base_power = PlayerPower + 1
    /\ actors[Player].max_hp = PlayerHp
    /\ history.action = NoAction
    /\ history.calls = <<>>

====
